---- MODULE Spec2Model ----
(***************************************************************************)
(* A model of go-imagefy's candidate validation pipeline:                  *)
(*   license.go    CheckLicenseWith and the domain lists                   *)
(*   metadata.go   IsStockByMetadata / IsCCByMetadata                      *)
(*   assess.go     Config.AssessLicense                                    *)
(*   classify.go   ParseClassificationResult, ClassifyImageFull,           *)
(*                 IsRealPhoto, doClassifyFull                             *)
(*   dedup.go      dedupFilter.isDuplicate, downloadForValidation          *)
(*   search.go     SearchImagesWithOpts, gatherCandidates,                 *)
(*                 validateCandidates, validateOne                         *)
(*                                                                         *)
(* Strings are opaque values; what the code asks of a string (does it      *)
(* contain this domain, this keyword) is answered by the tables below.     *)
(* Classifier responses are sequences of one-character strings so that     *)
(* trimming, upper-casing and prefix matching are computed, not assumed.   *)
(***************************************************************************)
EXTENDS Integers, Sequences, FiniteSets, TLC

(***************************************************************************)
(* Program constants.                                                      *)
(***************************************************************************)
LicenseSafe == 0
LicenseUnknown == 1
LicenseBlocked == 2

validationSemaphore == 3

dedupThreshold == 10

ClassPhoto == "PHOTO"
ClassStock == "STOCK"
ClassReject == "REJECT"
ClassScreenshot == "SCREENSHOT"
ClassIllustration == "ILLUSTRATION"
ClassMap == "MAP"

(***************************************************************************)
(* Bounds of the model.                                                    *)
(***************************************************************************)
\* longest candidate list the providers return in one search
MaxCands == 2
\* largest maxResults a search is called with
MaxQuota == 2
\* concurrent callers of one dedupFilter in DedupSpec
NumCallers == 2
\* isDuplicate calls each caller makes in DedupSpec
MaxCalls == 2

\* providers configured for a search
MaxProviders == 2
\* goroutines validateCandidates can have started at once (candidates in PoolSpec)
MaxPool == 4
\* concurrent validateCandidates calls in RunsSpec
NumRuns == 2
\* isDuplicate calls of each run in RunsSpec
RunImgs == 2
\* candidates with the same image URL in CacheSpec
SameURL == 3

(***************************************************************************)
(* Generic helpers.                                                        *)
(***************************************************************************)
Range(s) == {s[k] : k \in 1..Len(s)}

SeqsUpTo(S, n) == UNION {[1..k -> S] : k \in 0..n}

(***************************************************************************)
(* license.go: the domain lists and CheckLicenseWith.                      *)
(* A URL is its parsed form [host, path]; NoURL is the empty string.       *)
(* The built-in lists are represented by one entry each.                   *)
(***************************************************************************)
BlockedDomains == <<"shutterstock">>
BlockedURLPatterns == <<"/stock-photo">>
SafeDomains == <<"unsplash">>

NoURL == [host |-> "", path |-> ""]

\* strings.Contains on the strings of the model
Contains(s, sub) ==
    CASE s = "www.shutterstock.com" -> sub = "shutterstock"
      [] s = "images.unsplash.com"  -> sub = "unsplash"
      [] s = "mystock.example.com"  -> sub = "mystock.example.com"
      [] s = "ourarchive.org"       -> sub = "ourarchive.org"
      [] s = "/stock-photo/123.jpg" -> sub = "/stock-photo"
      [] OTHER -> FALSE

isBlockedWith(rawURL, extra) ==
    IF rawURL = NoURL THEN FALSE
    ELSE \/ /\ rawURL.host # ""
            /\ \/ \E k \in 1..Len(BlockedDomains) : Contains(rawURL.host, BlockedDomains[k])
               \/ \E k \in 1..Len(extra) : Contains(rawURL.host, extra[k])
         \/ \E k \in 1..Len(BlockedURLPatterns) : Contains(rawURL.path, BlockedURLPatterns[k])

extractHost(rawURL) == rawURL.host

isSafeWith(rawURL, extra) ==
    IF extractHost(rawURL) = "" THEN FALSE
    ELSE \/ \E k \in 1..Len(SafeDomains) : Contains(extractHost(rawURL), SafeDomains[k])
         \/ \E k \in 1..Len(extra) : Contains(extractHost(rawURL), extra[k])

CheckLicenseWith(imageURL, sourceURL, extraBlocked, extraSafe) ==
    IF isBlockedWith(imageURL, extraBlocked) \/ isBlockedWith(sourceURL, extraBlocked)
    THEN LicenseBlocked
    ELSE IF isSafeWith(imageURL, extraSafe) \/ isSafeWith(sourceURL, extraSafe)
         THEN LicenseSafe
         ELSE LicenseUnknown

CheckLicense(imageURL, sourceURL) == CheckLicenseWith(imageURL, sourceURL, <<>>, <<>>)

\* ImageLicense.String
LicenseString(l) ==
    IF l = LicenseSafe THEN "safe" ELSE IF l = LicenseBlocked THEN "blocked" ELSE "unknown"

(***************************************************************************)
(* metadata.go: the rights fields and the two metadata predicates.         *)
(* NilMeta is the nil *ImageMetadata.  A field value is an opaque string;  *)
(* HasStockKeyword / HasCCSegment say what it contains.                    *)
(***************************************************************************)
NilMeta == [isNil |-> TRUE]

HasStockKeyword(f) == f \in {"Getty Images", "Shutterstock CC creativecommons.org/licenses/by/4.0"}

HasCCSegment(f) ==
    f \in {"https://creativecommons.org/licenses/by/4.0/",
           "Shutterstock CC creativecommons.org/licenses/by/4.0"}

IsCCLicenseURL(rawURL) == rawURL # "" /\ HasCCSegment(rawURL)

StockFields(meta) ==
    <<meta.EXIFCopyright, meta.EXIFArtist, meta.IPTCCopyright, meta.IPTCCredit,
      meta.IPTCSource, meta.IPTCByline, meta.DCRights, meta.DCCreator>>

CCFields(meta) ==
    <<meta.XMPLicense, meta.XMPWebStatement, meta.XMPUsageTerms, meta.DCRights>>

IsStockByMetadata(meta) ==
    IF meta = NilMeta THEN FALSE
    ELSE \E k \in 1..Len(StockFields(meta)) :
            StockFields(meta)[k] # "" /\ HasStockKeyword(StockFields(meta)[k])

IsCCByMetadata(meta) ==
    IF meta = NilMeta THEN FALSE
    ELSE \E k \in 1..Len(CCFields(meta)) :
            IsCCLicenseURL(CCFields(meta)[k]) \/ HasCCSegment(CCFields(meta)[k])

\* the first non-empty entry of fields, "" when there is none
RECURSIVE FirstNonEmpty(_)
FirstNonEmpty(fields) ==
    IF fields = <<>> THEN ""
    ELSE IF Head(fields) # "" THEN Head(fields) ELSE FirstNonEmpty(Tail(fields))

metadataStockDetail(meta) == IF meta = NilMeta THEN "" ELSE FirstNonEmpty(StockFields(meta))

metadataCCDetail(meta) == IF meta = NilMeta THEN "" ELSE FirstNonEmpty(CCFields(meta))

EmptyMeta ==
    [EXIFCopyright |-> "", EXIFArtist |-> "", IPTCCopyright |-> "", IPTCCredit |-> "",
     IPTCSource |-> "", IPTCByline |-> "", XMPLicense |-> "", XMPWebStatement |-> "",
     XMPUsageTerms |-> "", DCRights |-> "", DCCreator |-> ""]

(***************************************************************************)
(* assess.go: Config.AssessLicense.                                        *)
(***************************************************************************)
\* mutant: the candidate's own verdict contributes no signal
DomainSignalDropped(cand) == <<>>

\* switch cand.License: Blocked and Safe each emit a "domain" signal
DomainSignal(cand) ==
    IF cand.License = LicenseBlocked
    THEN <<[Source |-> "domain", Detail |-> cand.Source.host, License |-> LicenseBlocked]>>
    ELSE IF cand.License = LicenseSafe
         THEN <<[Source |-> "domain", Detail |-> cand.Source.host, License |-> LicenseSafe]>>
         ELSE <<>>

\* mutant: the extended check reports its verdict even when it changes nothing
ExtraDomainSignalAlways(c, cand) ==
    IF Len(c.ExtraBlockedDomains) > 0 \/ Len(c.ExtraSafeDomains) > 0
    THEN LET extLicense == CheckLicenseWith(cand.ImgURL, cand.Source,
                                            c.ExtraBlockedDomains, c.ExtraSafeDomains)
         IN IF extLicense # LicenseUnknown
            THEN <<[Source |-> "extra_domain", Detail |-> LicenseString(extLicense), License |-> extLicense]>>
            ELSE <<>>
    ELSE <<>>

\* the extended domain check, made only when an extra list is configured
ExtraDomainSignal(c, cand) ==
    IF Len(c.ExtraBlockedDomains) > 0 \/ Len(c.ExtraSafeDomains) > 0
    THEN LET extLicense == CheckLicenseWith(cand.ImgURL, cand.Source,
                                            c.ExtraBlockedDomains, c.ExtraSafeDomains)
         IN IF extLicense # cand.License /\ extLicense # LicenseUnknown
            THEN <<[Source |-> "extra_domain", Detail |-> LicenseString(extLicense), License |-> extLicense]>>
            ELSE <<>>
    ELSE <<>>

MetadataStockSignal(meta) ==
    IF IsStockByMetadata(meta)
    THEN <<[Source |-> "metadata_stock", Detail |-> metadataStockDetail(meta),
            License |-> LicenseBlocked]>>
    ELSE <<>>

MetadataCCSignal(meta) ==
    IF IsCCByMetadata(meta)
    THEN <<[Source |-> "metadata_cc", Detail |-> metadataCCDetail(meta),
            License |-> LicenseSafe]>>
    ELSE <<>>

\* mutant: a resolution that forgets Safe signals
ResolveIgnoresSafe(signals, final) ==
    IF \E k \in 1..Len(signals) : signals[k].License = LicenseBlocked
    THEN LicenseBlocked ELSE final

\* mutant: the last signal decides
ResolveLastWins(signals, final) ==
    IF signals = <<>> THEN final ELSE signals[Len(signals)].License

\* the resolution loop: the first Blocked signal ends it, a Safe signal is remembered
RECURSIVE Resolve(_, _)
Resolve(signals, final) ==
    IF signals = <<>> THEN final
    ELSE IF Head(signals).License = LicenseBlocked THEN LicenseBlocked
         ELSE IF Head(signals).License = LicenseSafe THEN Resolve(Tail(signals), LicenseSafe)
              ELSE Resolve(Tail(signals), final)

\* signals := make([]LicenseSignal, 0, 4): an empty slice that is not nil
SignalsStartNil == FALSE

\* mutant: the metadata signals are looked for before the domain signals
AssessLicenseMetadataFirst(c, cand, meta) ==
    LET signals == MetadataStockSignal(meta) \o MetadataCCSignal(meta)
                   \o DomainSignal(cand) \o ExtraDomainSignal(c, cand)
    IN [License |-> Resolve(signals, LicenseUnknown), Signals |-> signals,
        SignalsNil |-> SignalsStartNil /\ signals = <<>>]

\* the four signals in the order the code appends them, then the resolution;
\* SignalsNil says whether the returned slice is nil (append makes a nil slice non-nil)
AssessLicense(c, cand, meta) ==
    LET signals == DomainSignal(cand) \o ExtraDomainSignal(c, cand)
                   \o MetadataStockSignal(meta) \o MetadataCCSignal(meta)
    IN [License |-> Resolve(signals, LicenseUnknown), Signals |-> signals,
        SignalsNil |-> SignalsStartNil /\ signals = <<>>]

(***************************************************************************)
(* classify.go: ParseClassificationResult.                                 *)
(* A response is a sequence of one-character strings.  A confidence is the *)
(* decimal num/den that strconv.ParseFloat reads from a token of the form  *)
(* [sign] digits [. digits]; NaN and Inf are the special values ParseFloat *)
(* accepts by name.                                                        *)
(***************************************************************************)
classificationClasses ==
    << [name |-> ClassIllustration, chars |-> <<"I","L","L","U","S","T","R","A","T","I","O","N">>],
       [name |-> ClassScreenshot,   chars |-> <<"S","C","R","E","E","N","S","H","O","T">>],
       [name |-> ClassReject,       chars |-> <<"R","E","J","E","C","T">>],
       [name |-> ClassPhoto,        chars |-> <<"P","H","O","T","O">>],
       [name |-> ClassStock,        chars |-> <<"S","T","O","C","K">>],
       [name |-> ClassMap,          chars |-> <<"M","A","P">>] >>

LowerChars == <<"a","b","c","d","e","f","g","h","i","j","k","l","m",
                "n","o","p","q","r","s","t","u","v","w","x","y","z">>
UpperChars == <<"A","B","C","D","E","F","G","H","I","J","K","L","M",
                "N","O","P","Q","R","S","T","U","V","W","X","Y","Z">>
DigitChars == <<"0","1","2","3","4","5","6","7","8","9">>

IsSpace(ch) == ch \in {" ", "\t", "\n"}

ToUpperChar(ch) ==
    IF \E k \in 1..Len(LowerChars) : LowerChars[k] = ch
    THEN UpperChars[CHOOSE k \in 1..Len(LowerChars) : LowerChars[k] = ch]
    ELSE ch

ToUpper(s) == [k \in 1..Len(s) |-> ToUpperChar(s[k])]

RECURSIVE TrimLeft(_)
TrimLeft(s) == IF s # <<>> /\ IsSpace(Head(s)) THEN TrimLeft(Tail(s)) ELSE s

RECURSIVE TrimRight(_)
TrimRight(s) ==
    IF s # <<>> /\ IsSpace(s[Len(s)]) THEN TrimRight(SubSeq(s, 1, Len(s) - 1)) ELSE s

TrimSpace(s) == TrimRight(TrimLeft(s))

HasPrefix(s, prefix) ==
    Len(s) >= Len(prefix) /\ SubSeq(s, 1, Len(prefix)) = prefix

\* strings.Fields(s)[0] for a non-empty s that starts with a non-space
RECURSIVE FirstField(_)
FirstField(s) ==
    IF s = <<>> \/ IsSpace(Head(s)) THEN <<>> ELSE <<Head(s)>> \o FirstField(Tail(s))

IsDigit(ch) == \E k \in 1..Len(DigitChars) : DigitChars[k] = ch

DigitVal(ch) == (CHOOSE k \in 1..Len(DigitChars) : DigitChars[k] = ch) - 1

RECURSIVE DigitsVal(_)
DigitsVal(s) == IF s = <<>> THEN 0 ELSE DigitsVal(SubSeq(s, 1, Len(s) - 1)) * 10 + DigitVal(s[Len(s)])

RECURSIVE Pow10(_)
Pow10(n) == IF n = 0 THEN 1 ELSE 10 * Pow10(n - 1)

ZeroConf == [num |-> 0, den |-> 1]
\* NaN is no number: it is kept apart from every num/den by its zero denominator
NaNConf == [num |-> 0, den |-> 0]

\* strconv.ParseFloat(tok, 64): [ok, special, num, den]
ParseFloat(tok) ==
    LET signed == tok # <<>> /\ Head(tok) \in {"+", "-"}
        neg == tok # <<>> /\ Head(tok) = "-"
        body == IF signed THEN Tail(tok) ELSE tok
        dots == {k \in 1..Len(body) : body[k] = "."}
        dot == IF dots = {} THEN Len(body) + 1 ELSE CHOOSE k \in dots : TRUE
        ip == SubSeq(body, 1, dot - 1)
        fp == SubSeq(body, dot + 1, Len(body))
        numeric == /\ Cardinality(dots) <= 1
                   /\ Len(ip) + Len(fp) > 0
                   /\ \A k \in 1..Len(ip) : IsDigit(ip[k])
                   /\ \A k \in 1..Len(fp) : IsDigit(fp[k])
        mag == DigitsVal(ip) * Pow10(Len(fp)) + DigitsVal(fp)
    IN IF body = <<"N","A","N">> /\ ~signed
       THEN [ok |-> TRUE, special |-> "NaN", num |-> 0, den |-> 1]
       ELSE IF body \in {<<"I","N","F">>, <<"I","N","F","I","N","I","T","Y">>}
       THEN [ok |-> TRUE, special |-> IF neg THEN "-Inf" ELSE "+Inf", num |-> 0, den |-> 1]
       ELSE IF numeric
       THEN [ok |-> TRUE, special |-> "", num |-> IF neg THEN 0 - mag ELSE mag,
             den |-> Pow10(Len(fp))]
       ELSE [ok |-> FALSE, special |-> "", num |-> 0, den |-> 1]

\* mutant: a label matches only a response that is the label and nothing more
MatchClassWholeText(upper) ==
    LET hits == {k \in 1..Len(classificationClasses) : upper = classificationClasses[k].chars}
    IN IF hits = {} THEN [name |-> "", chars |-> <<>>]
       ELSE classificationClasses[CHOOSE k \in hits : \A m \in hits : k <= m]

\* the first label of classificationClasses that is a prefix of upper, "" if none
MatchClass(upper) ==
    LET hits == {k \in 1..Len(classificationClasses) :
                    HasPrefix(upper, classificationClasses[k].chars)}
    IN IF hits = {} THEN [name |-> "", chars |-> <<>>]
       ELSE classificationClasses[CHOOSE k \in hits : \A m \in hits : k <= m]

ParseClassificationResult(resp) ==
    LET upper == TrimSpace(ToUpper(resp))
        matched == MatchClass(upper)
        remainder == TrimSpace(SubSeq(upper, Len(matched.chars) + 1, Len(upper)))
        conf == ParseFloat(FirstField(remainder))
    IN IF upper = <<>> THEN [Class |-> "", Confidence |-> ZeroConf]
       ELSE IF matched.name = "" THEN [Class |-> "", Confidence |-> ZeroConf]
       ELSE IF remainder = <<>> THEN [Class |-> matched.name, Confidence |-> ZeroConf]
       ELSE IF ~conf.ok THEN [Class |-> matched.name, Confidence |-> ZeroConf]
       ELSE IF conf.special = "NaN" THEN [Class |-> matched.name, Confidence |-> NaNConf]
       ELSE IF conf.special = "-Inf" \/ conf.special = "+Inf"
            THEN [Class |-> matched.name, Confidence |-> ZeroConf]
       ELSE IF conf.num <= 0 \/ conf.num > conf.den
            THEN [Class |-> matched.name, Confidence |-> ZeroConf]
       ELSE [Class |-> matched.name, Confidence |-> [num |-> conf.num, den |-> conf.den]]

(***************************************************************************)
(* dedup.go: perceptual fingerprints.                                      *)
(* A dHash is the set of its one bits (positions 1..64); the Hamming       *)
(* distance is the size of the symmetric difference.  FpA..FpD are the     *)
(* fingerprints the images of the model hash to: FpA-FpB 9 bits apart,     *)
(* FpB-FpC 1 bit, FpA-FpC exactly 10 bits, FpD at least 20 bits from all.  *)
(***************************************************************************)
FpA == {}
FpB == 1..9
FpC == 1..10
FpD == 21..40

Fingerprints == {FpA, FpB, FpC, FpD}

NoHash == {0}

\* ImageHash.Distance: all hashes are dHashes of one width, so it never errs
Distance(h1, h2) == Cardinality((h1 \ h2) \cup (h2 \ h1))

\* mutant: a distance equal to the threshold counts as a duplicate
IsDupInclusive(h1, h2) == Distance(h1, h2) <= dedupThreshold

\* the test of isDuplicate's loop body
IsDup(h1, h2) == Distance(h1, h2) < dedupThreshold

\* a decoded image: its fingerprint, and whether DifferenceHash succeeds on it
Images == [fp : Fingerprints, hashable : {TRUE}] \cup {[fp |-> FpA, hashable |-> FALSE]}

NoImg == [fp |-> NoHash, hashable |-> FALSE]

\* goimagehash.DifferenceHash(img): (hash, err)
DifferenceHash(image) ==
    IF image.hashable THEN [err |-> FALSE, hash |-> image.fp]
    ELSE [err |-> TRUE, hash |-> NoHash]

(***************************************************************************)
(* Inputs of a search.                                                     *)
(***************************************************************************)
UrlUnsplash == [host |-> "images.unsplash.com", path |-> "/a.jpg"]
UrlCdn == [host |-> "cdn.example.com", path |-> "/b.jpg"]
UrlMyStock == [host |-> "mystock.example.com", path |-> "/page"]
UrlShutterstock == [host |-> "www.shutterstock.com", path |-> "/c.jpg"]

\* the candidates a provider may return: one per license verdict
CandSafe == [ImgURL |-> UrlUnsplash, Source |-> UrlUnsplash, License |-> LicenseSafe]
CandUnknown == [ImgURL |-> UrlCdn, Source |-> UrlMyStock, License |-> LicenseUnknown]
CandBlocked == [ImgURL |-> UrlShutterstock, Source |-> UrlShutterstock, License |-> LicenseBlocked]

CandKinds == {CandSafe, CandUnknown, CandBlocked}

\* what one SearchProvider.Search call returns: (results, err)
ProviderResponses ==
    {[err |-> TRUE, results |-> <<>>]}
        \cup {[err |-> FALSE, results |-> r] :
                 r \in {<<CandUnknown>>, <<CandBlocked>>, <<CandUnknown, CandSafe>>}}

\* Config: which collaborators are set, and the extra domain lists
BareConfig ==
    [Classifier |-> FALSE, Cache |-> FALSE, OnClassification |-> FALSE,
     OnPanic |-> FALSE, ExtraBlockedDomains |-> <<>>, ExtraSafeDomains |-> <<>>]

\* the Configs searched with: no collaborator; a Classifier with the audit callback,
\* and with callback and Cache; callback and Cache without a Classifier; the callback
\* with an extra blocked domain
Configs ==
    {BareConfig,
     [BareConfig EXCEPT !.Classifier = TRUE, !.OnClassification = TRUE],
     [BareConfig EXCEPT !.Classifier = TRUE, !.OnClassification = TRUE, !.Cache = TRUE],
     [BareConfig EXCEPT !.OnClassification = TRUE, !.Cache = TRUE],
     [BareConfig EXCEPT !.OnClassification = TRUE,
                        !.ExtraBlockedDomains = <<"mystock.example.com">>]}

\* the metadata ExtractImageMetadata finds in downloaded bytes
MetaStock == [EmptyMeta EXCEPT !.IPTCCredit = "Getty Images"]
MetaCC == [EmptyMeta EXCEPT !.XMPLicense = "https://creativecommons.org/licenses/by/4.0/"]

\* ExtractImageMetadata(data): nil without bytes, else whatever the bytes hold
MetadataOf(hasData) == IF hasData THEN {NilMeta, MetaStock, MetaCC} ELSE {NilMeta}

\* the decoded images a validation download yields
PipelineImages == {[fp |-> f, hashable |-> TRUE] : f \in {FpA, FpB, FpD}}

\* the texts the Classifier answers with
TextPhoto == <<"P","H","O","T","O"," ","0",".","9">>
TextStock == <<"s","t","o","c","k">>
TextOther == <<"n","o"," ","i","d","e","a">>

ClassifierTexts == {TextPhoto, TextStock, TextOther}

EmptyResult == [Class |-> "", Confidence |-> ZeroConf]

\* cfg.Cache.Key("vision_cls_v2", imageURL)
CacheKey(imageURL) == <<"vision_cls_v2", imageURL>>

CacheKeys == {CacheKey(c.ImgURL) : c \in CandKinds}

\* what the Cache holds under a key it has no entry for: Get returns false
CacheMiss == [Class |-> "<miss>", Confidence |-> ZeroConf]

EmptyCache == [k \in CacheKeys |-> CacheMiss]

\* the Cache at the start of a search: empty, or holding a STOCK result of an earlier search
InitialCaches ==
    {EmptyCache,
     [EmptyCache EXCEPT ![CacheKey(UrlCdn)] = [Class |-> ClassStock, Confidence |-> ZeroConf]]}

(***************************************************************************)
(* State.                                                                  *)
(***************************************************************************)
VARIABLES
    cfg,        \* the Config of the search
    maxResults, \* the maxResults argument
    query,      \* the query argument
    responses,  \* what the providers not yet asked will answer
    candidates, \* gatherCandidates' all, then the sorted list handed to validateCandidates
    dpc,        \* where SearchImagesWithOpts / validateCandidates is
    next,       \* index of the candidate the dispatch loop looks at next
    wg,         \* the WaitGroup counter
    sem,        \* slots of the sem channel in use
    mu,         \* validateCandidates' mu: 0 when free, else the worker holding it
    validated,  \* validated, as indices into candidates
    cache,      \* the Cache: the value stored under each key, CacheMiss when none
    hashes,     \* dedupFilter.hashes
    dmu,        \* dedupFilter.mu: 0 when free, else the worker holding it
    wpc,        \* where each worker (goroutine) is
    data,       \* whether downloadForValidation returned bytes
    img,        \* isDuplicate's argument img, NoImg when the worker has none
    hash,       \* isDuplicate's local hash
    found,      \* whether isDuplicate's loop met a stored duplicate
    dres,       \* what isDuplicate returned: "none", "dup" or "unique"
    verdict,    \* assessment.License of the worker's candidate, -1 before it is assessed
    result,     \* the ClassificationResult of the worker's ClassifyImageFull call
    clsOut,     \* how that call came to its result: "none" before, "nil" (no Classifier),
                \* "hit" (cache), "dlfail" (download failed), "err" (Classifier error), "text"
    room,       \* the outcome of len(*validated) < maxResults read under mu
    events,     \* history: the ClassificationEvents OnClassification got for the worker
    downloads,  \* history: Download calls made for the worker's candidate
    resp,       \* history: the text the Classifier answered the worker with, <<>> if none
    cacheOps,   \* history: Cache.Get and Cache.Set calls made for the worker's candidate
    slot,       \* history: the index at which the worker's call stored its hash, 0 if none
    conc,       \* history: the workers whose isDuplicate call overlapped the worker's call
    ncalls,     \* history: isDuplicate calls the worker has completed
    faulted,    \* history: the value of the panic that ended the worker's validateOne, or NoFault
    panics,     \* history: the OnPanic calls made for the worker, as [tag, value]
    arg,        \* the arguments of a function called on its own: in AssessSpec the
                \* (cfg, cand, meta) of AssessLicense, in ParseSpec the response text
    ret,        \* <<>> before that call, then <<what it returned>>
    rfilter,    \* RunsSpec: the dedupFilter each validateCandidates call made, 0 before
    fstore,     \* RunsSpec: hashes of each dedupFilter of the heap
    fmu,        \* RunsSpec: mu of each dedupFilter, 0 when free
    rwork,      \* RunsSpec: each run's isDuplicate calls, as [pc, hash, res]
    deadline    \* DeadlineSpec: whether the context of the search has expired, and where
                \* each goroutine was when it did

inputVars == <<cfg, maxResults, query>>

faultVars == <<faulted, panics>>

assessVars == <<arg, ret>>

runVars == <<rfilter, fstore, fmu, rwork>>

\* what only FaultSpec, AssessSpec, RunsSpec and DeadlineSpec change
auxVars == <<faultVars, assessVars, runVars, deadline>>

driverVars == <<responses, candidates, dpc, next, wg>>

sharedVars == <<sem, mu, validated, cache>>

dedupVars == <<hashes, dmu, img, hash, found, dres, slot, conc>>

stageVars == <<data, verdict, result, clsOut, room, events, downloads, resp, cacheOps>>

\* everything isDuplicate neither reads nor writes
pipeVars == <<inputVars, driverVars, sharedVars, stageVars, auxVars>>

vars == <<inputVars, driverVars, sharedVars, stageVars, dedupVars, wpc, ncalls, auxVars>>

\* the goroutines of one validateCandidates call, one per candidate
Workers == 1..MaxPool

Callers == 1..NumCallers

\* no panic has happened in the goroutine
NoFault == ""

\* the context of the search before its timeout: ctx.Err() == nil
NoDeadline == [expired |-> FALSE, at |-> [w \in Workers |-> "idle"]]

InIsDuplicate(w) == wpc[w] \in {"hash", "dlock", "dscan", "dstore"}

(***************************************************************************)
(* dedup.go: dedupFilter.isDuplicate, one action per step of the call.     *)
(***************************************************************************)
\* entry of isDuplicate(image) for worker w
EnterIsDuplicate(w, image) ==
    /\ img' = [img EXCEPT ![w] = image]
    /\ hash' = [hash EXCEPT ![w] = NoHash]
    /\ found' = [found EXCEPT ![w] = FALSE]
    /\ dres' = [dres EXCEPT ![w] = "none"]
    /\ slot' = [slot EXCEPT ![w] = 0]
    /\ conc' = [v \in Workers |->
                   IF v = w THEN {u \in Workers \ {w} : InIsDuplicate(u)}
                   ELSE IF InIsDuplicate(v) THEN conc[v] \cup {w} ELSE conc[v]]

\* mutant: a hashing failure reported as a duplicate
HashImageRejects(w) ==
    /\ wpc[w] = "hash"
    /\ LET r == DifferenceHash(img[w])
       IN IF r.err
          THEN /\ dres' = [dres EXCEPT ![w] = "dup"]
               /\ wpc' = [wpc EXCEPT ![w] = "dret"]
               /\ hash' = hash
          ELSE /\ hash' = [hash EXCEPT ![w] = r.hash]
               /\ wpc' = [wpc EXCEPT ![w] = "dlock"]
               /\ dres' = dres
    /\ UNCHANGED <<hashes, dmu, img, found, slot, conc, ncalls, pipeVars>>

\* hash, err := goimagehash.DifferenceHash(img); if err != nil { return false }
HashImage(w) ==
    /\ wpc[w] = "hash"
    /\ LET r == DifferenceHash(img[w])
       IN IF r.err
          THEN /\ dres' = [dres EXCEPT ![w] = "unique"]
               /\ wpc' = [wpc EXCEPT ![w] = "dret"]
               /\ hash' = hash
          ELSE /\ hash' = [hash EXCEPT ![w] = r.hash]
               /\ wpc' = [wpc EXCEPT ![w] = "dlock"]
               /\ dres' = dres
    /\ UNCHANGED <<hashes, dmu, img, found, slot, conc, ncalls, pipeVars>>

\* mutant: Lock that does not wait for the holder
MutexNeverHeld(m) == TRUE

\* sync.Mutex.Lock succeeds only on a free mutex
MutexFree(m) == m = 0

\* d.mu.Lock()
DedupLock(w) ==
    /\ wpc[w] = "dlock"
    /\ MutexFree(dmu)
    /\ dmu' = w
    /\ wpc' = [wpc EXCEPT ![w] = "dscan"]
    /\ UNCHANGED <<hashes, img, hash, found, dres, slot, conc, ncalls, pipeVars>>

\* mutant: a loop that looks at the most recent stored hash only
ScanFindsLastOnly(h, stored) == stored # <<>> /\ IsDup(h, stored[Len(stored)])

\* for _, h := range d.hashes { if err == nil && dist < dedupThreshold { return true } }
ScanFinds(h, stored) == \E k \in 1..Len(stored) : IsDup(h, stored[k])

DedupScan(w) ==
    /\ wpc[w] = "dscan"
    /\ found' = [found EXCEPT ![w] = ScanFinds(hash[w], hashes)]
    /\ wpc' = [wpc EXCEPT ![w] = "dstore"]
    /\ UNCHANGED <<hashes, dmu, img, hash, dres, slot, conc, ncalls, pipeVars>>

\* return true, or d.hashes = append(d.hashes, hash); return false; then the deferred Unlock
DedupStore(w) ==
    /\ wpc[w] = "dstore"
    /\ IF found[w]
       THEN /\ dres' = [dres EXCEPT ![w] = "dup"]
            /\ UNCHANGED <<hashes, slot>>
       ELSE /\ hashes' = Append(hashes, hash[w])
            /\ slot' = [slot EXCEPT ![w] = Len(hashes) + 1]
            /\ dres' = [dres EXCEPT ![w] = "unique"]
    /\ dmu' = IF dmu = w THEN 0 ELSE dmu
    /\ wpc' = [wpc EXCEPT ![w] = "dret"]
    /\ UNCHANGED <<img, hash, found, conc, ncalls, pipeVars>>

(***************************************************************************)
(* The state before any goroutine runs.                                    *)
(***************************************************************************)
NoWorkers ==
    /\ wg = 0
    /\ sem = 0
    /\ mu = 0
    /\ validated = <<>>
    /\ hashes = <<>>
    /\ dmu = 0
    /\ wpc = [w \in Workers |-> "idle"]
    /\ data = [w \in Workers |-> FALSE]
    /\ img = [w \in Workers |-> NoImg]
    /\ hash = [w \in Workers |-> NoHash]
    /\ found = [w \in Workers |-> FALSE]
    /\ dres = [w \in Workers |-> "none"]
    /\ verdict = [w \in Workers |-> -1]
    /\ result = [w \in Workers |-> EmptyResult]
    /\ clsOut = [w \in Workers |-> "none"]
    /\ room = [w \in Workers |-> FALSE]
    /\ events = [w \in Workers |-> <<>>]
    /\ downloads = [w \in Workers |-> 0]
    /\ resp = [w \in Workers |-> <<>>]
    /\ cacheOps = [w \in Workers |-> 0]
    /\ slot = [w \in Workers |-> 0]
    /\ conc = [w \in Workers |-> {}]
    /\ ncalls = [w \in Workers |-> 0]
    /\ faulted = [w \in Workers |-> NoFault]
    /\ panics = [w \in Workers |-> <<>>]
    /\ deadline = NoDeadline

\* AssessLicense has not been called on its own
NoAssessCall == arg = <<>> /\ ret = <<>>

Runs == 1..NumRuns

\* the dedupFilter objects the heap can hold
FilterIds == 1..NumRuns

RunCalls == Runs \X (1..RunImgs)

IdleCall == [pc |-> "idle", hash |-> NoHash, res |-> "none"]

\* no validateCandidates call of RunsSpec has started
NoRuns ==
    /\ rfilter = [r \in Runs |-> 0]
    /\ fstore = [f \in FilterIds |-> <<>>]
    /\ fmu = [f \in FilterIds |-> 0]
    /\ rwork = [c \in RunCalls |-> IdleCall]

(***************************************************************************)
(* DedupSpec: NumCallers goroutines share one dedupFilter and each calls   *)
(* isDuplicate up to MaxCalls times with any image.                        *)
(***************************************************************************)
DedupInit ==
    /\ cfg = BareConfig
    /\ maxResults = 0
    /\ query = ""
    /\ responses = <<>>
    /\ candidates = <<>>
    /\ dpc = "done"
    /\ next = 1
    /\ cache = EmptyCache
    /\ NoWorkers
    /\ NoAssessCall
    /\ NoRuns

CallIsDuplicate(w, image) ==
    /\ wpc[w] = "idle"
    /\ ncalls[w] < MaxCalls
    /\ EnterIsDuplicate(w, image)
    /\ wpc' = [wpc EXCEPT ![w] = "hash"]
    /\ UNCHANGED <<hashes, dmu, ncalls, pipeVars>>

ReturnIsDuplicate(w) ==
    /\ wpc[w] = "dret"
    /\ wpc' = [wpc EXCEPT ![w] = "idle"]
    /\ ncalls' = [ncalls EXCEPT ![w] = @ + 1]
    /\ UNCHANGED <<dedupVars, pipeVars>>

DedupNext ==
    \/ \E w \in Callers, image \in Images : CallIsDuplicate(w, image)
    \/ \E w \in Callers : HashImage(w)
    \/ \E w \in Callers : DedupLock(w)
    \/ \E w \in Callers : DedupScan(w)
    \/ \E w \in Callers : DedupStore(w)
    \/ \E w \in Callers : ReturnIsDuplicate(w)

DedupSpec == DedupInit /\ [][DedupNext]_vars

(***************************************************************************)
(* search.go: SearchImagesWithOpts up to the call of validateCandidates.   *)
(***************************************************************************)
RECURSIVE gatherCandidates(_)
\* for _, p := range providers: a failing provider is skipped, the others append
gatherCandidates(resps) ==
    IF resps = <<>> THEN <<>>
    ELSE IF Head(resps).err THEN gatherCandidates(Tail(resps))
    ELSE Head(resps).results \o gatherCandidates(Tail(resps))

\* mutant: a comparison that also holds for equal verdicts
LicenseNotGreater(a, b) == a.License <= b.License

\* less(i, j) of the sort: candidates[i].License < candidates[j].License
LicenseLess(a, b) == a.License < b.License

RECURSIVE InsertStable(_, _)
\* x goes behind every element it is not less than
InsertStable(x, sorted) ==
    IF sorted = <<>> THEN <<x>>
    ELSE IF LicenseLess(x, Head(sorted)) THEN <<x>> \o sorted
    ELSE <<Head(sorted)>> \o InsertStable(x, Tail(sorted))

RECURSIVE SliceStable(_)
\* sort.SliceStable(candidates, less)
SliceStable(s) ==
    IF s = <<>> THEN <<>>
    ELSE InsertStable(s[Len(s)], SliceStable(SubSeq(s, 1, Len(s) - 1)))

\* query == "" returns nil; no candidates returns nil; else sort and validate
SearchImagesWithOpts ==
    /\ dpc = "start"
    /\ LET all == gatherCandidates(responses)
       IN IF query = ""
          THEN /\ dpc' = "done"
               /\ UNCHANGED <<responses, candidates>>
          ELSE /\ responses' = <<>>
               /\ candidates' = SliceStable(all)
               /\ dpc' = IF all = <<>> THEN "done" ELSE "loop"
    /\ UNCHANGED <<auxVars, inputVars, next, wg, sharedVars, stageVars, dedupVars, wpc, ncalls>>

(***************************************************************************)
(* search.go: validateCandidates, the dispatch loop and the wait.          *)
(***************************************************************************)
\* enough := len(validated) >= maxResults
Enough(n, max) == n >= max

\* mutant: a loop that starts a goroutine for every candidate
DispatchAll ==
    /\ dpc = "loop"
    /\ next <= Len(candidates)
    /\ MutexFree(mu)
    /\ wg' = wg + 1
    /\ wpc' = [wpc EXCEPT ![next] = "sem"]
    /\ next' = next + 1
    /\ dpc' = IF next + 1 > Len(candidates) THEN "wait" ELSE "loop"
    /\ UNCHANGED <<auxVars, inputVars, responses, candidates, sharedVars, stageVars, dedupVars, ncalls>>

\* one iteration of the loop: read enough under mu, then break or start a goroutine
Dispatch ==
    /\ dpc = "loop"
    /\ next <= Len(candidates)
    /\ MutexFree(mu)
    /\ IF Enough(Len(validated), maxResults)
       THEN /\ dpc' = "wait"
            /\ UNCHANGED <<next, wg, wpc>>
       ELSE /\ wg' = wg + 1
            /\ wpc' = [wpc EXCEPT ![next] = "sem"]
            /\ next' = next + 1
            /\ dpc' = IF next + 1 > Len(candidates) THEN "wait" ELSE "loop"
    /\ UNCHANGED <<auxVars, inputVars, responses, candidates, sharedVars, stageVars, dedupVars, ncalls>>

\* mutant: the driver returns without waiting for its goroutines
WaitNoJoin ==
    /\ dpc = "wait"
    /\ dpc' = "done"
    /\ UNCHANGED <<auxVars, inputVars, responses, candidates, next, wg, sharedVars, stageVars,
                   dedupVars, wpc, ncalls>>

\* wg.Wait(); return validated
Wait ==
    /\ dpc = "wait"
    /\ wg = 0
    /\ dpc' = "done"
    /\ UNCHANGED <<auxVars, inputVars, responses, candidates, next, wg, sharedVars, stageVars,
                   dedupVars, wpc, ncalls>>

\* mutant: the goroutine enters validateOne without a place in sem
AcquireUnbounded(w) ==
    /\ wpc[w] = "sem"
    /\ sem' = sem + 1
    /\ wpc' = [wpc EXCEPT ![w] = "probe"]
    /\ UNCHANGED <<auxVars, inputVars, driverVars, mu, validated, cache, stageVars, dedupVars, ncalls>>

\* sem <- struct{}{}
Acquire(w) ==
    /\ wpc[w] = "sem"
    /\ sem < validationSemaphore
    /\ sem' = sem + 1
    /\ wpc' = [wpc EXCEPT ![w] = "probe"]
    /\ UNCHANGED <<auxVars, inputVars, driverVars, mu, validated, cache, stageVars, dedupVars, ncalls>>

\* mutant: a goroutine whose candidate was not appended takes its hash out of the store
ExitForgetsRejected(w) ==
    /\ wpc[w] = "exit"
    /\ sem' = sem - 1
    /\ wg' = wg - 1
    /\ wpc' = [wpc EXCEPT ![w] = "done"]
    /\ data' = [data EXCEPT ![w] = FALSE]
    /\ img' = [img EXCEPT ![w] = NoImg]
    /\ found' = [found EXCEPT ![w] = FALSE]
    /\ room' = [room EXCEPT ![w] = FALSE]
    /\ slot' = [slot EXCEPT ![w] = 0]
    /\ conc' = [conc EXCEPT ![w] = {}]
    /\ hashes' = IF w \in Range(validated) THEN hashes
                 ELSE SelectSeq(hashes, LAMBDA h : h # hash[w])
    /\ UNCHANGED <<auxVars, inputVars, responses, candidates, dpc, next, mu, validated, cache,
                   verdict, result, clsOut, events, downloads, resp, cacheOps,
                   dmu, hash, dres, ncalls>>

\* the deferred calls of the goroutine: <-sem, then wg.Done(); its locals die with it
Exit(w) ==
    /\ wpc[w] = "exit"
    /\ sem' = sem - 1
    /\ wg' = wg - 1
    /\ wpc' = [wpc EXCEPT ![w] = "done"]
    /\ data' = [data EXCEPT ![w] = FALSE]
    /\ img' = [img EXCEPT ![w] = NoImg]
    /\ found' = [found EXCEPT ![w] = FALSE]
    /\ room' = [room EXCEPT ![w] = FALSE]
    /\ slot' = [slot EXCEPT ![w] = 0]
    /\ conc' = [conc EXCEPT ![w] = {}]
    /\ UNCHANGED <<auxVars, inputVars, responses, candidates, dpc, next, mu, validated, cache,
                   verdict, result, clsOut, events, downloads, resp, cacheOps,
                   hashes, dmu, hash, dres, ncalls>>

(***************************************************************************)
(* search.go: validateOne, one action per pipeline stage.                  *)
(***************************************************************************)
\* if !cfg.ValidateImageURL(ctx, cand.ImgURL) { return }
Probe(w, ok) ==
    /\ wpc[w] = "probe"
    /\ wpc' = [wpc EXCEPT ![w] = IF ok THEN "download" ELSE "exit"]
    /\ UNCHANGED <<auxVars, inputVars, driverVars, sharedVars, stageVars, dedupVars, ncalls>>

\* the results of downloadForValidation: (nil, nil), (data, nil), (data, img)
DownloadOutcomes ==
    {[data |-> FALSE, img |-> NoImg], [data |-> TRUE, img |-> NoImg]}
        \cup {[data |-> TRUE, img |-> i] : i \in PipelineImages}

\* mutant: one download for the dedup step and another for the metadata
DownloadForEachUse(w, out) ==
    /\ wpc[w] = "download"
    /\ data' = [data EXCEPT ![w] = out.data]
    /\ downloads' = [downloads EXCEPT ![w] = @ + 2]
    /\ IF out.img # NoImg
       THEN /\ EnterIsDuplicate(w, out.img)
            /\ wpc' = [wpc EXCEPT ![w] = "hash"]
       ELSE /\ wpc' = [wpc EXCEPT ![w] = "assess"]
            /\ UNCHANGED <<img, hash, found, dres, slot, conc>>
    /\ UNCHANGED <<auxVars, inputVars, driverVars, sharedVars, verdict, result, clsOut, room, events,
                   resp, cacheOps, hashes, dmu, ncalls>>

\* mutant: a candidate whose download yields no decoded image is given up
DownloadFailureRejects(w, out) ==
    /\ wpc[w] = "download"
    /\ data' = [data EXCEPT ![w] = out.data]
    /\ downloads' = [downloads EXCEPT ![w] = @ + 1]
    /\ IF out.img # NoImg
       THEN /\ EnterIsDuplicate(w, out.img)
            /\ wpc' = [wpc EXCEPT ![w] = "hash"]
       ELSE /\ wpc' = [wpc EXCEPT ![w] = "exit"]
            /\ UNCHANGED <<img, hash, found, dres, slot, conc>>
    /\ UNCHANGED <<auxVars, inputVars, driverVars, sharedVars, verdict, result, clsOut, room, events,
                   resp, cacheOps, hashes, dmu, ncalls>>

\* data, img := cfg.downloadForValidation(...); if img != nil { dedup.isDuplicate(img) }
DownloadForValidation(w, out) ==
    /\ wpc[w] = "download"
    /\ data' = [data EXCEPT ![w] = out.data]
    /\ downloads' = [downloads EXCEPT ![w] = @ + 1]
    /\ IF out.img # NoImg
       THEN /\ EnterIsDuplicate(w, out.img)
            /\ wpc' = [wpc EXCEPT ![w] = "hash"]
       ELSE /\ wpc' = [wpc EXCEPT ![w] = "assess"]
            /\ UNCHANGED <<img, hash, found, dres, slot, conc>>
    /\ UNCHANGED <<auxVars, inputVars, driverVars, sharedVars, verdict, result, clsOut, room, events,
                   resp, cacheOps, hashes, dmu, ncalls>>

\* mutant: the result of isDuplicate is not looked at
AfterDedupIgnoresResult(w) ==
    /\ wpc[w] = "dret"
    /\ wpc' = [wpc EXCEPT ![w] = "assess"]
    /\ UNCHANGED <<auxVars, inputVars, driverVars, sharedVars, stageVars, dedupVars, ncalls>>

\* if dedup.isDuplicate(img) { return }
AfterDedup(w) ==
    /\ wpc[w] = "dret"
    /\ wpc' = [wpc EXCEPT ![w] = IF dres[w] = "dup" THEN "exit" ELSE "assess"]
    /\ UNCHANGED <<auxVars, inputVars, driverVars, sharedVars, stageVars, dedupVars, ncalls>>

\* cfg.OnClassification(ev) when the callback is set
Emit(w, ev) == IF cfg.OnClassification THEN [events EXCEPT ![w] = Append(@, ev)] ELSE events

\* mutant: the Blocked verdict reported with the class of a discarded image
BlockedEventAsReject(cand) ==
    [URL |-> cand.ImgURL, Class |-> ClassReject, Confidence |-> ZeroConf,
     Source |-> "license_assessment"]

BlockedEvent(cand) ==
    [URL |-> cand.ImgURL, Class |-> ClassStock, Confidence |-> ZeroConf,
     Source |-> "license_assessment"]

\* mutant: the Safe verdict reported without its confidence
SafeEventNoConfidence(cand) ==
    [URL |-> cand.ImgURL, Class |-> ClassPhoto, Confidence |-> ZeroConf,
     Source |-> "license_assessment"]

SafeEvent(cand) ==
    [URL |-> cand.ImgURL, Class |-> ClassPhoto, Confidence |-> [num |-> 1, den |-> 1],
     Source |-> "license_assessment"]

\* mutant: the return after a Blocked assessment is missing
AssessBlockedFallsThrough(w, meta) ==
    /\ wpc[w] = "assess"
    /\ LET cand == candidates[w]
           assessment == AssessLicense(cfg, cand, meta)
       IN /\ verdict' = [verdict EXCEPT ![w] = assessment.License]
          /\ IF assessment.License = LicenseBlocked
             THEN /\ events' = Emit(w, BlockedEvent(cand))
                  /\ wpc' = [wpc EXCEPT ![w] = "classify"]
             ELSE IF assessment.License = LicenseSafe
             THEN /\ events' = Emit(w, SafeEvent(cand))
                  /\ wpc' = [wpc EXCEPT ![w] = "lock"]
             ELSE /\ events' = events
                  /\ wpc' = [wpc EXCEPT ![w] = "classify"]
    /\ UNCHANGED <<auxVars, inputVars, driverVars, sharedVars, data, result, clsOut, room, downloads,
                   resp, cacheOps, dedupVars, ncalls>>

\* meta := ExtractImageMetadata(data); assessment := cfg.AssessLicense(cand, meta);
\* Blocked returns, Safe goes to the append, Unknown falls through to IsRealPhoto
Assess(w, meta) ==
    /\ wpc[w] = "assess"
    /\ LET cand == candidates[w]
           assessment == AssessLicense(cfg, cand, meta)
       IN /\ verdict' = [verdict EXCEPT ![w] = assessment.License]
          /\ IF assessment.License = LicenseBlocked
             THEN /\ events' = Emit(w, BlockedEvent(cand))
                  /\ wpc' = [wpc EXCEPT ![w] = "exit"]
             ELSE IF assessment.License = LicenseSafe
             THEN /\ events' = Emit(w, SafeEvent(cand))
                  /\ wpc' = [wpc EXCEPT ![w] = "lock"]
             ELSE /\ events' = events
                  /\ wpc' = [wpc EXCEPT ![w] = "classify"]
    /\ UNCHANGED <<auxVars, inputVars, driverVars, sharedVars, data, result, clsOut, room, downloads,
                   resp, cacheOps, dedupVars, ncalls>>

(***************************************************************************)
(* classify.go: IsRealPhoto -> ClassifyImage -> ClassifyImageFull.         *)
(***************************************************************************)
\* mutant: the mapping of the three-class prompt
IsRealPhotoLegacy(cls) == cls # ClassReject /\ cls # ClassStock

\* mutant: only an explicit PHOTO is accepted
IsRealPhotoStrict(cls) == cls = ClassPhoto

\* return cls == ClassPhoto || cls == ""
IsRealPhoto(cls) == cls = ClassPhoto \/ cls = ""

\* mutant: the return after a false IsRealPhoto is missing
AfterIsRealPhotoFallsThrough(res) == "lock"

\* where validateOne goes once IsRealPhoto has answered
AfterIsRealPhoto(res) == IF IsRealPhoto(res.Class) THEN "lock" ELSE "exit"

\* where ClassifyImageFull goes once doClassifyFull has returned res
AfterDoClassify(res) == IF cfg.Cache THEN "cset" ELSE AfterIsRealPhoto(res)

\* mutant: ClassifyImageFull without the Cache.Get
ClassifyImageFullNoGet(w) ==
    /\ wpc[w] = "classify"
    /\ IF ~cfg.Classifier
       THEN /\ result' = [result EXCEPT ![w] = EmptyResult]
            /\ clsOut' = [clsOut EXCEPT ![w] = "nil"]
            /\ wpc' = [wpc EXCEPT ![w] = AfterIsRealPhoto(EmptyResult)]
       ELSE /\ wpc' = [wpc EXCEPT ![w] = "cdownload"]
            /\ UNCHANGED <<result, clsOut>>
    /\ cacheOps' = cacheOps
    /\ UNCHANGED <<auxVars, inputVars, driverVars, sharedVars, data, verdict, room, events, downloads,
                   resp, dedupVars, ncalls>>

\* ClassifyImageFull up to the call of doClassifyFull
ClassifyImageFull(w) ==
    /\ wpc[w] = "classify"
    /\ LET key == CacheKey(candidates[w].ImgURL)
       IN IF ~cfg.Classifier
          THEN /\ result' = [result EXCEPT ![w] = EmptyResult]
               /\ clsOut' = [clsOut EXCEPT ![w] = "nil"]
               /\ wpc' = [wpc EXCEPT ![w] = AfterIsRealPhoto(EmptyResult)]
          ELSE IF cfg.Cache /\ cache[key] # CacheMiss
          THEN /\ result' = [result EXCEPT ![w] = cache[key]]
               /\ clsOut' = [clsOut EXCEPT ![w] = "hit"]
               /\ wpc' = [wpc EXCEPT ![w] = AfterIsRealPhoto(cache[key])]
          ELSE /\ wpc' = [wpc EXCEPT ![w] = "cdownload"]
               /\ UNCHANGED <<result, clsOut>>
    /\ cacheOps' = [cacheOps EXCEPT ![w] = IF cfg.Classifier /\ cfg.Cache THEN @ + 1 ELSE @]
    /\ UNCHANGED <<auxVars, inputVars, driverVars, sharedVars, data, verdict, room, events, downloads,
                   resp, dedupVars, ncalls>>

\* doClassifyFull: r, err := cfg.Download(...); if r == nil || err != nil { return {} }
ClassifyDownload(w, ok) ==
    /\ wpc[w] = "cdownload"
    /\ downloads' = [downloads EXCEPT ![w] = @ + 1]
    /\ IF ok
       THEN /\ wpc' = [wpc EXCEPT ![w] = "ccall"]
            /\ UNCHANGED <<result, clsOut>>
       ELSE /\ result' = [result EXCEPT ![w] = EmptyResult]
            /\ clsOut' = [clsOut EXCEPT ![w] = "dlfail"]
            /\ wpc' = [wpc EXCEPT ![w] = AfterDoClassify(EmptyResult)]
    /\ UNCHANGED <<auxVars, inputVars, driverVars, sharedVars, data, verdict, room, events,
                   resp, cacheOps, dedupVars, ncalls>>

LLMEvent(imageURL, res) ==
    [URL |-> imageURL, Class |-> res.Class, Confidence |-> res.Confidence, Source |-> "llm"]

\* the answers of Classifier.Classify: an error, or a text
ClassifierAnswers ==
    {[err |-> TRUE, text |-> <<>>]} \cup {[err |-> FALSE, text |-> t] : t \in ClassifierTexts}

\* mutant: a Classifier error is reported to the audit callback like an answer
ClassifierCallReportsErrors(w, ans) ==
    /\ wpc[w] = "ccall"
    /\ LET res == IF ans.err THEN EmptyResult ELSE ParseClassificationResult(ans.text)
       IN /\ result' = [result EXCEPT ![w] = res]
          /\ clsOut' = [clsOut EXCEPT ![w] = IF ans.err THEN "err" ELSE "text"]
          /\ events' = Emit(w, LLMEvent(candidates[w].ImgURL, res))
          /\ wpc' = [wpc EXCEPT ![w] = AfterDoClassify(res)]
    /\ resp' = [resp EXCEPT ![w] = ans.text]
    /\ UNCHANGED <<auxVars, inputVars, driverVars, sharedVars, data, verdict, room, downloads,
                   cacheOps, dedupVars, ncalls>>

\* doClassifyFull: resp, err := cfg.Classifier.Classify(...), parse, report
ClassifierCall(w, ans) ==
    /\ wpc[w] = "ccall"
    /\ LET res == IF ans.err THEN EmptyResult ELSE ParseClassificationResult(ans.text)
       IN /\ result' = [result EXCEPT ![w] = res]
          /\ clsOut' = [clsOut EXCEPT ![w] = IF ans.err THEN "err" ELSE "text"]
          /\ events' = IF ans.err THEN events
                       ELSE Emit(w, LLMEvent(candidates[w].ImgURL, res))
          /\ wpc' = [wpc EXCEPT ![w] = AfterDoClassify(res)]
    /\ resp' = [resp EXCEPT ![w] = ans.text]
    /\ UNCHANGED <<auxVars, inputVars, driverVars, sharedVars, data, verdict, room, downloads,
                   cacheOps, dedupVars, ncalls>>

\* mutant: a result without a class is not written to the Cache
CacheSetSkipsEmpty(w) ==
    /\ wpc[w] = "cset"
    /\ LET key == CacheKey(candidates[w].ImgURL)
       IN cache' = IF result[w].Class = "" THEN cache ELSE [cache EXCEPT ![key] = result[w]]
    /\ wpc' = [wpc EXCEPT ![w] = AfterIsRealPhoto(result[w])]
    /\ cacheOps' = [cacheOps EXCEPT ![w] = @ + 1]
    /\ UNCHANGED <<auxVars, inputVars, driverVars, sem, mu, validated, data, verdict, result, clsOut,
                   room, events, downloads, resp, dedupVars, ncalls>>

\* cfg.Cache.Set(ctx, cacheKey, result); return result
CacheSet(w) ==
    /\ wpc[w] = "cset"
    /\ LET key == CacheKey(candidates[w].ImgURL)
       IN cache' = [cache EXCEPT ![key] = result[w]]
    /\ wpc' = [wpc EXCEPT ![w] = AfterIsRealPhoto(result[w])]
    /\ cacheOps' = [cacheOps EXCEPT ![w] = @ + 1]
    /\ UNCHANGED <<auxVars, inputVars, driverVars, sem, mu, validated, data, verdict, result, clsOut,
                   room, events, downloads, resp, dedupVars, ncalls>>

(***************************************************************************)
(* search.go: the guarded append that ends validateOne.                    *)
(***************************************************************************)
\* mutant: a quota test that admits one candidate too many
HasRoomOffByOne(n, max) == n <= max

\* if len(*validated) < maxResults
HasRoom(n, max) == n < max

\* mutant: the length is tested before mu is taken
LockAndTestOutside(w) ==
    /\ wpc[w] = "lock"
    /\ room' = [room EXCEPT ![w] = HasRoom(Len(validated), maxResults)]
    /\ wpc' = [wpc EXCEPT ![w] = "append"]
    /\ UNCHANGED <<auxVars, inputVars, driverVars, sem, mu, validated, cache, data, verdict, result,
                   clsOut, events, downloads, resp, cacheOps, dedupVars, ncalls>>

\* mu.Lock(), then the test of the if
LockAndTest(w) ==
    /\ wpc[w] = "lock"
    /\ MutexFree(mu)
    /\ mu' = w
    /\ room' = [room EXCEPT ![w] = HasRoom(Len(validated), maxResults)]
    /\ wpc' = [wpc EXCEPT ![w] = "append"]
    /\ UNCHANGED <<auxVars, inputVars, driverVars, sem, validated, cache, data, verdict, result, clsOut,
                   events, downloads, resp, cacheOps, dedupVars, ncalls>>

\* *validated = append(*validated, cand) when the test held, then mu.Unlock()
AppendAndUnlock(w) ==
    /\ wpc[w] = "append"
    /\ validated' = IF room[w] THEN Append(validated, w) ELSE validated
    /\ mu' = IF mu = w THEN 0 ELSE mu
    /\ wpc' = [wpc EXCEPT ![w] = "exit"]
    /\ UNCHANGED <<auxVars, inputVars, driverVars, sem, cache, stageVars, dedupVars, ncalls>>

(***************************************************************************)
(* Spec: one SearchImagesWithOpts call, for any Config, query, maxResults  *)
(* and any answers of the providers with at most MaxCands candidates.      *)
(***************************************************************************)
Init ==
    /\ cfg \in Configs
    /\ maxResults \in -1..MaxQuota
    /\ query \in {"", "cats"}
    /\ responses \in {r \in SeqsUpTo(ProviderResponses, MaxProviders) :
                         Len(gatherCandidates(r)) <= MaxCands}
    /\ candidates = <<>>
    /\ dpc = "start"
    /\ next = 1
    /\ cache \in (IF cfg.Cache THEN InitialCaches ELSE {EmptyCache})
    /\ NoWorkers
    /\ NoAssessCall
    /\ NoRuns

Next ==
    \/ SearchImagesWithOpts
    \/ Dispatch
    \/ Wait
    \/ \E w \in Workers : Acquire(w)
    \/ \E w \in Workers, ok \in BOOLEAN : Probe(w, ok)
    \/ \E w \in Workers, out \in DownloadOutcomes : DownloadForValidation(w, out)
    \/ \E w \in Workers : HashImage(w)
    \/ \E w \in Workers : DedupLock(w)
    \/ \E w \in Workers : DedupScan(w)
    \/ \E w \in Workers : DedupStore(w)
    \/ \E w \in Workers : AfterDedup(w)
    \/ \E w \in Workers : \E meta \in MetadataOf(data[w]) : Assess(w, meta)
    \/ \E w \in Workers : ClassifyImageFull(w)
    \/ \E w \in Workers, ok \in BOOLEAN : ClassifyDownload(w, ok)
    \/ \E w \in Workers, ans \in ClassifierAnswers : ClassifierCall(w, ans)
    \/ \E w \in Workers : CacheSet(w)
    \/ \E w \in Workers : LockAndTest(w)
    \/ \E w \in Workers : AppendAndUnlock(w)
    \/ \E w \in Workers : Exit(w)

Spec == Init /\ [][Next]_vars

(***************************************************************************)
(* AssessSpec: one AssessLicense call, for any candidate verdict and URLs, *)
(* any extra domain lists and any metadata.                                *)
(***************************************************************************)
UrlArchive == [host |-> "ourarchive.org", path |-> "/d.jpg"]

UrlStockPath == [host |-> "cdn.example.com", path |-> "/stock-photo/123.jpg"]

AssessCands ==
    [ImgURL : {UrlUnsplash, UrlCdn, UrlStockPath, UrlShutterstock},
     Source : {UrlMyStock, UrlArchive},
     License : {LicenseSafe, LicenseUnknown, LicenseBlocked}]

AssessConfigs ==
    {[BareConfig EXCEPT !.ExtraBlockedDomains = b, !.ExtraSafeDomains = f] :
        b \in {<<>>, <<"mystock.example.com">>, <<"ourarchive.org">>},
        f \in {<<>>, <<"ourarchive.org">>}}

\* metadata with a stock credit and a CC license, in two fields and in one
MetaBoth == [MetaStock EXCEPT !.XMPLicense = "https://creativecommons.org/licenses/by/4.0/"]
MetaMixed == [EmptyMeta EXCEPT !.DCRights = "Shutterstock CC creativecommons.org/licenses/by/4.0"]

AssessMetas == {NilMeta, EmptyMeta, MetaStock, MetaCC, MetaBoth, MetaMixed}

AssessInit ==
    /\ arg \in [cfg : AssessConfigs, cand : AssessCands, meta : AssessMetas]
    /\ ret = <<>>
    /\ cfg = BareConfig
    /\ maxResults = 0
    /\ query = ""
    /\ responses = <<>>
    /\ candidates = <<>>
    /\ dpc = "done"
    /\ next = 1
    /\ cache = EmptyCache
    /\ NoWorkers
    /\ NoRuns

\* assessment := cfg.AssessLicense(cand, meta)
CallAssessLicense ==
    /\ arg # <<>>
    /\ ret = <<>>
    /\ ret' = <<AssessLicense(arg.cfg, arg.cand, arg.meta)>>
    /\ UNCHANGED <<arg, faultVars, runVars, deadline, inputVars, driverVars, sharedVars, stageVars,
                   dedupVars, wpc, ncalls>>

AssessNext == CallAssessLicense

AssessSpec == AssessInit /\ [][AssessNext]_vars

(***************************************************************************)
(* RunsSpec: NumRuns validateCandidates calls at once, on the same Config. *)
(* Each makes its dedupFilter and runs RunImgs isDuplicate calls on it.    *)
(***************************************************************************)
\* mutant: the call takes the filter another call has made
ReusedFilter(used) == 1

\* dedup := &dedupFilter{}: an object of the heap that no one holds yet
NewFilter(used) == CHOOSE f \in FilterIds : f \notin used /\ \A g \in FilterIds \ used : f <= g

RunsInit ==
    /\ NoRuns
    /\ cfg = BareConfig
    /\ maxResults = 0
    /\ query = ""
    /\ responses = <<>>
    /\ candidates = <<>>
    /\ dpc = "done"
    /\ next = 1
    /\ cache = EmptyCache
    /\ NoWorkers
    /\ NoAssessCall

\* validateCandidates up to its loop: the run gets its filter
RunStart(r) ==
    /\ rfilter[r] = 0
    /\ rfilter' = [rfilter EXCEPT ![r] = NewFilter({rfilter[q] : q \in Runs} \ {0})]
    /\ UNCHANGED <<fstore, fmu, rwork, faultVars, assessVars, deadline, inputVars, driverVars,
                   sharedVars, stageVars, dedupVars, wpc, ncalls>>

\* isDuplicate of a worker of run r: hash, and return false when hashing fails
RunHash(r, k, image) ==
    /\ rfilter[r] # 0
    /\ rwork[<<r, k>>].pc = "idle"
    /\ LET h == DifferenceHash(image)
       IN rwork' = [rwork EXCEPT ![<<r, k>>] =
                       IF h.err THEN [pc |-> "done", hash |-> NoHash, res |-> "unique"]
                       ELSE [pc |-> "lock", hash |-> h.hash, res |-> "none"]]
    /\ UNCHANGED <<rfilter, fstore, fmu, faultVars, assessVars, deadline, inputVars, driverVars,
                   sharedVars, stageVars, dedupVars, wpc, ncalls>>

\* d.mu.Lock() on the filter of the run
RunLock(r, k) ==
    /\ rwork[<<r, k>>].pc = "lock"
    /\ MutexFree(fmu[rfilter[r]])
    /\ fmu' = [fmu EXCEPT ![rfilter[r]] = 1]
    /\ rwork' = [rwork EXCEPT ![<<r, k>>].pc = "scan"]
    /\ UNCHANGED <<rfilter, fstore, faultVars, assessVars, deadline, inputVars, driverVars,
                   sharedVars, stageVars, dedupVars, wpc, ncalls>>

\* the scan of d.hashes, the append when nothing matched, the deferred Unlock
RunScanStore(r, k) ==
    /\ rwork[<<r, k>>].pc = "scan"
    /\ LET f == rfilter[r]
           h == rwork[<<r, k>>].hash
       IN IF ScanFinds(h, fstore[f])
          THEN /\ rwork' = [rwork EXCEPT ![<<r, k>>].pc = "done", ![<<r, k>>].res = "dup"]
               /\ fstore' = fstore
          ELSE /\ rwork' = [rwork EXCEPT ![<<r, k>>].pc = "done", ![<<r, k>>].res = "unique"]
               /\ fstore' = [fstore EXCEPT ![f] = Append(@, h)]
    /\ fmu' = [fmu EXCEPT ![rfilter[r]] = 0]
    /\ UNCHANGED <<rfilter, faultVars, assessVars, deadline, inputVars, driverVars,
                   sharedVars, stageVars, dedupVars, wpc, ncalls>>

RunsNext ==
    \/ \E r \in Runs : RunStart(r)
    \/ \E c \in RunCalls, image \in Images : RunHash(c[1], c[2], image)
    \/ \E c \in RunCalls : RunLock(c[1], c[2])
    \/ \E c \in RunCalls : RunScanStore(c[1], c[2])

RunsSpec == RunsInit /\ [][RunsNext]_vars

(***************************************************************************)
(* PoolSpec: one validateCandidates call over up to MaxPool Safe           *)
(* candidates whose downloads yield no decodable image, so that more       *)
(* goroutines are started than sem has places.                             *)
(***************************************************************************)
PoolResponses ==
    {<<[err |-> FALSE, results |-> [k \in 1..n |-> CandSafe]]>> : n \in 1..MaxPool}

PoolInit ==
    /\ cfg = BareConfig
    /\ maxResults \in 1..MaxQuota
    /\ query = "cats"
    /\ responses \in PoolResponses
    /\ candidates = <<>>
    /\ dpc = "start"
    /\ next = 1
    /\ cache = EmptyCache
    /\ NoWorkers
    /\ NoAssessCall
    /\ NoRuns

PoolNext ==
    \/ SearchImagesWithOpts
    \/ Dispatch
    \/ Wait
    \/ \E w \in Workers : Acquire(w)
    \/ \E w \in Workers, ok \in BOOLEAN : Probe(w, ok)
    \/ \E w \in Workers, d \in BOOLEAN :
           DownloadForValidation(w, [data |-> d, img |-> NoImg])
    \/ \E w \in Workers : Assess(w, NilMeta)
    \/ \E w \in Workers : LockAndTest(w)
    \/ \E w \in Workers : AppendAndUnlock(w)
    \/ \E w \in Workers : Exit(w)

PoolSpec == PoolInit /\ [][PoolNext]_vars

(***************************************************************************)
(* FaultSpec: the pipeline with panics.  A stage of validateOne that calls *)
(* into a collaborator or a decoder can panic instead of completing; the   *)
(* deferred function of validateOne recovers, the deferred Unlock of       *)
(* isDuplicate runs while the stack unwinds, and validateOne returns.      *)
(***************************************************************************)
\* where a goroutine can panic: not while it waits for or holds mu, where the
\* code between Lock and Unlock is a length test and an append
FaultStages ==
    {"probe", "download", "hash", "dscan", "dstore", "assess", "classify",
     "cdownload", "ccall", "cset"}

\* the values recover() returns for a run-time panic
FaultValues == {"invalid memory address or nil pointer dereference", "index out of range"}

\* mutant: recover() without the OnPanic call
FaultUnreported(w, v) ==
    /\ wpc[w] \in FaultStages
    /\ faulted' = [faulted EXCEPT ![w] = v]
    /\ dmu' = IF dmu = w THEN 0 ELSE dmu
    /\ wpc' = [wpc EXCEPT ![w] = "exit"]
    /\ UNCHANGED <<panics, assessVars, runVars, deadline, inputVars, driverVars, sharedVars, stageVars,
                   hashes, img, hash, found, dres, slot, conc, ncalls>>

\* mutant: a panic that ends the goroutine without its deferred <-sem and wg.Done()
FaultSkipsDefers(w, v) ==
    /\ wpc[w] \in FaultStages
    /\ faulted' = [faulted EXCEPT ![w] = v]
    /\ panics' = IF cfg.OnPanic
                 THEN [panics EXCEPT ![w] = Append(@, [tag |-> "imageValidation", value |-> v])]
                 ELSE panics
    /\ dmu' = IF dmu = w THEN 0 ELSE dmu
    /\ wpc' = [wpc EXCEPT ![w] = "done"]
    /\ UNCHANGED <<assessVars, runVars, deadline, inputVars, driverVars, sharedVars, stageVars,
                   hashes, img, hash, found, dres, slot, conc, ncalls>>

\* panic(v) in a stage: defer d.mu.Unlock() if inside isDuplicate, then
\* if r := recover(); r != nil { if cfg.OnPanic != nil { cfg.OnPanic("imageValidation", r) } }
Fault(w, v) ==
    /\ wpc[w] \in FaultStages
    /\ faulted' = [faulted EXCEPT ![w] = v]
    /\ panics' = IF cfg.OnPanic
                 THEN [panics EXCEPT ![w] = Append(@, [tag |-> "imageValidation", value |-> v])]
                 ELSE panics
    /\ dmu' = IF dmu = w THEN 0 ELSE dmu
    /\ wpc' = [wpc EXCEPT ![w] = "exit"]
    /\ UNCHANGED <<assessVars, runVars, deadline, inputVars, driverVars, sharedVars, stageVars,
                   hashes, img, hash, found, dres, slot, conc, ncalls>>

\* Configs with and without OnPanic, with a Classifier, the audit callback and a Cache
FaultConfigs ==
    {[BareConfig EXCEPT !.Classifier = TRUE, !.OnClassification = TRUE, !.Cache = TRUE,
                        !.OnPanic = p] : p \in BOOLEAN}

FaultInit ==
    /\ cfg \in FaultConfigs
    /\ maxResults \in 1..MaxQuota
    /\ query = "cats"
    /\ responses = <<[err |-> FALSE, results |-> <<CandUnknown, CandSafe>>]>>
    /\ candidates = <<>>
    /\ dpc = "start"
    /\ next = 1
    /\ cache = EmptyCache
    /\ NoWorkers
    /\ NoAssessCall
    /\ NoRuns

FaultNext ==
    \/ \E w \in Workers, v \in FaultValues : Fault(w, v)
    \/ Next

\* every goroutine and the driver are scheduled as long as they can take a step
FaultSpec == FaultInit /\ [][FaultNext]_vars /\ WF_vars(FaultNext)

(***************************************************************************)
(* GatherSpec: SearchImagesWithOpts over providers that answer with up to  *)
(* MaxCands candidates each, or fail, possibly with partial results; every *)
(* probe fails, so that only gathering, sorting and dispatch are explored. *)
(***************************************************************************)
\* a second candidate of unknown license, told from CandUnknown by its URL
CandUnknownB == [CandUnknown EXCEPT !.ImgURL = UrlArchive]

GatherCands == {CandSafe, CandUnknown, CandUnknownB, CandBlocked}

\* (results, err) of a Search call: a failure may come with results
GatherResponses ==
    {[err |-> e, results |-> r] : e \in BOOLEAN, r \in SeqsUpTo(GatherCands, MaxCands)}

GatherInit ==
    /\ cfg = BareConfig
    /\ maxResults = MaxQuota
    /\ query = "cats"
    /\ responses \in {r \in SeqsUpTo(GatherResponses, MaxProviders) :
                         Len(gatherCandidates(r)) <= MaxPool}
    /\ candidates = <<>>
    /\ dpc = "start"
    /\ next = 1
    /\ cache = EmptyCache
    /\ NoWorkers
    /\ NoAssessCall
    /\ NoRuns

GatherNext ==
    \/ SearchImagesWithOpts
    \/ Dispatch
    \/ Wait
    \/ \E w \in Workers : Acquire(w)
    \/ \E w \in Workers : Probe(w, FALSE)
    \/ \E w \in Workers : Exit(w)

GatherSpec == GatherInit /\ [][GatherNext]_vars

(***************************************************************************)
(* VisionSpec: the pipeline over two candidates of unknown license with    *)
(* the same image URL, whose validation downloads give no decoded image,   *)
(* with a Classifier that may answer with any of the six labels.           *)
(***************************************************************************)
TextReject == <<"R","e","j","e","c","t"," ","1">>
TextScreenshot == <<"S","C","R","E","E","N","S","H","O","T"," ","1",".","5">>
TextIllustration == <<" ","i","l","l","u","s","t","r","a","t","i","o","n">>
TextMap == <<"M","A","P"," ","0",".","5"," ","x">>
TextPhotoNaN == <<"P","H","O","T","O"," ","N","a","N">>

VisionAnswers ==
    {[err |-> TRUE, text |-> <<>>]}
        \cup {[err |-> FALSE, text |-> t] :
                 t \in {TextPhoto, TextStock, TextOther, TextReject, TextScreenshot,
                        TextIllustration, TextMap, TextPhotoNaN, <<>>}}

\* a Classifier with the audit callback, without and with a Cache
VisionConfigs ==
    {[BareConfig EXCEPT !.Classifier = TRUE, !.OnClassification = TRUE, !.Cache = c] :
        c \in BOOLEAN}

VisionInit ==
    /\ cfg \in VisionConfigs
    /\ maxResults \in 1..MaxQuota
    /\ query = "cats"
    /\ responses = <<[err |-> FALSE, results |-> [k \in 1..MaxCands |-> CandUnknown]]>>
    /\ candidates = <<>>
    /\ dpc = "start"
    /\ next = 1
    /\ cache = EmptyCache
    /\ NoWorkers
    /\ NoAssessCall
    /\ NoRuns

VisionNext ==
    \/ SearchImagesWithOpts
    \/ Dispatch
    \/ Wait
    \/ \E w \in Workers : Acquire(w)
    \/ \E w \in Workers : Probe(w, TRUE)
    \/ \E w \in Workers, d \in BOOLEAN :
           DownloadForValidation(w, [data |-> d, img |-> NoImg])
    \/ \E w \in Workers : Assess(w, NilMeta)
    \/ \E w \in Workers : ClassifyImageFull(w)
    \/ \E w \in Workers, ok \in BOOLEAN : ClassifyDownload(w, ok)
    \/ \E w \in Workers, ans \in VisionAnswers : ClassifierCall(w, ans)
    \/ \E w \in Workers : CacheSet(w)
    \/ \E w \in Workers : LockAndTest(w)
    \/ \E w \in Workers : AppendAndUnlock(w)
    \/ \E w \in Workers : Exit(w)

VisionSpec == VisionInit /\ [][VisionNext]_vars

(***************************************************************************)
(* DeadlineSpec: the pipeline under the context SearchImagesWithOpts makes *)
(* with context.WithTimeout.  Once the context has expired every HTTP      *)
(* request made with it fails and the Classifier, which gets the same      *)
(* context, returns an error.                                              *)
(***************************************************************************)
\* the timer of the context fires while validateCandidates runs
Expire ==
    /\ ~deadline.expired
    /\ dpc \in {"loop", "wait"}
    /\ deadline' = [expired |-> TRUE, at |-> wpc]
    /\ UNCHANGED <<faultVars, assessVars, runVars, inputVars, driverVars, sharedVars, stageVars,
                   dedupVars, wpc, ncalls>>

\* ValidateImageURL: client.Do fails on an expired context; a request that was under way
\* fails as well, or, with the headers already read, fails in DecodeConfig and is accepted
ProbeResults(w) ==
    IF deadline.expired /\ deadline.at[w] # "probe" THEN {FALSE} ELSE BOOLEAN

\* downloadForValidation: Download returns nil on an expired context
ValidationDownloads ==
    IF deadline.expired THEN {[data |-> FALSE, img |-> NoImg]}
    ELSE {[data |-> FALSE, img |-> NoImg], [data |-> TRUE, img |-> NoImg],
          [data |-> TRUE, img |-> [fp |-> FpA, hashable |-> TRUE]]}

\* doClassifyFull: Download returns nil on an expired context
ClassifyDownloads == IF deadline.expired THEN {FALSE} ELSE BOOLEAN

\* Classifier.Classify(ctx, ...) returns an error on an expired context
ClassifierResults ==
    IF deadline.expired THEN {[err |-> TRUE, text |-> <<>>]} ELSE ClassifierAnswers

DeadlineInit ==
    /\ cfg = [BareConfig EXCEPT !.Classifier = TRUE]
    /\ maxResults = MaxQuota
    /\ query = "cats"
    /\ responses = <<[err |-> FALSE, results |-> <<CandUnknown, CandSafe>>]>>
    /\ candidates = <<>>
    /\ dpc = "start"
    /\ next = 1
    /\ cache = EmptyCache
    /\ NoWorkers
    /\ NoAssessCall
    /\ NoRuns

DeadlineNext ==
    \/ SearchImagesWithOpts
    \/ Expire
    \/ Dispatch
    \/ Wait
    \/ \E w \in Workers : Acquire(w)
    \/ \E w \in Workers : \E ok \in ProbeResults(w) : Probe(w, ok)
    \/ \E w \in Workers, out \in ValidationDownloads : DownloadForValidation(w, out)
    \/ \E w \in Workers : HashImage(w)
    \/ \E w \in Workers : DedupLock(w)
    \/ \E w \in Workers : DedupScan(w)
    \/ \E w \in Workers : DedupStore(w)
    \/ \E w \in Workers : AfterDedup(w)
    \/ \E w \in Workers : \E meta \in MetadataOf(data[w]) : Assess(w, meta)
    \/ \E w \in Workers : ClassifyImageFull(w)
    \/ \E w \in Workers, ok \in ClassifyDownloads : ClassifyDownload(w, ok)
    \/ \E w \in Workers, ans \in ClassifierResults : ClassifierCall(w, ans)
    \/ \E w \in Workers : LockAndTest(w)
    \/ \E w \in Workers : AppendAndUnlock(w)
    \/ \E w \in Workers : Exit(w)

DeadlineSpec == DeadlineInit /\ [][DeadlineNext]_vars

(***************************************************************************)
(* ParseSpec: one ParseClassificationResult call on a response made of     *)
(* leading white space, a word and a tail.                                 *)
(***************************************************************************)
ParsePads == {<<>>, <<" ">>, <<"\t", " ">>}

\* the six labels in some spelling, labels followed by more letters, prefixes of
\* labels, a label that is not at the start, and no word at all
ParseWords ==
    {<<"P","H","O","T","O">>, <<"p","h","o","t","o">>, <<"S","t","o","c","k">>,
     <<"R","E","J","E","C","T">>, <<"s","c","r","e","e","n","s","h","o","t">>,
     <<"I","l","l","u","s","t","r","a","t","i","o","n">>, <<"m","a","p">>,
     <<"P","H","O","T","O","G","R","A","P","H">>, <<"S","T","O","C","K","P","H","O","T","O">>,
     <<"M","A","P","S">>, <<"r","e","j","e","c","t","e","d">>,
     <<"S","C","R","E","E","N">>, <<"I","L","L","U","S","T","R","A","T","E","D">>,
     <<"S","T","O","P">>, <<"A"," ","P","H","O","T","O">>, <<"n","o">>, <<>>}

ParseTails ==
    {<<>>, <<" ">>, <<" ","0",".","9">>, <<" ","1",".","5">>, <<":"," ","o","k">>}

ParseInputs == {p \o w \o t : p \in ParsePads, w \in ParseWords, t \in ParseTails}

ParseInit ==
    /\ arg \in [resp : ParseInputs]
    /\ ret = <<>>
    /\ cfg = BareConfig
    /\ maxResults = 0
    /\ query = ""
    /\ responses = <<>>
    /\ candidates = <<>>
    /\ dpc = "done"
    /\ next = 1
    /\ cache = EmptyCache
    /\ NoWorkers
    /\ NoRuns

\* result := ParseClassificationResult(resp)
CallParseClassificationResult ==
    /\ arg # <<>>
    /\ ret = <<>>
    /\ ret' = <<ParseClassificationResult(arg.resp)>>
    /\ UNCHANGED <<arg, faultVars, runVars, deadline, inputVars, driverVars, sharedVars, stageVars,
                   dedupVars, wpc, ncalls>>

ParseNext == CallParseClassificationResult

ParseSpec == ParseInit /\ [][ParseNext]_vars

(***************************************************************************)
(* validate.go: ValidateImageURL.  URLs and content types are sequences of *)
(* one-character strings, so that lower-casing, substring search and the   *)
(* prefix test are computed.                                               *)
(***************************************************************************)
DefaultMinImageWidth == 880

LogoBannerPatterns ==
    << <<"f","a","v","i","c","o","n">>, <<"l","o","g","o">>, <<"i","c","o","n">>,
       <<"b","a","n","n","e","r">>, <<"s","p","r","i","t","e">>, <<"b","a","d","g","e">>,
       <<"b","u","t","t","o","n">>, <<"w","i","d","g","e","t">>, <<"a","v","a","t","a","r">> >>

ToLowerChar(ch) ==
    IF \E k \in 1..Len(UpperChars) : UpperChars[k] = ch
    THEN LowerChars[CHOOSE k \in 1..Len(UpperChars) : UpperChars[k] = ch]
    ELSE ch

ToLower(s) == [k \in 1..Len(s) |-> ToLowerChar(s[k])]

\* strings.Contains on sequences of characters
ContainsSeq(s, sub) ==
    \E i \in 1..(Len(s) - Len(sub) + 1) : SubSeq(s, i, i + Len(sub) - 1) = sub

IsLogoOrBanner(lower) ==
    \E k \in 1..Len(LogoBannerPatterns) : ContainsSeq(lower, LogoBannerPatterns[k])

\* Config.defaults on MinImageWidth
MinImageWidthOf(c) == IF c.MinImageWidth <= 0 THEN DefaultMinImageWidth ELSE c.MinImageWidth

ImagePrefix == <<"i","m","a","g","e","/">>

\* mutant: an image whose dimensions cannot be decoded is rejected
ValidateImageURLStrictDecode(c, rawURL, net) ==
    IF IsLogoOrBanner(ToLower(rawURL)) THEN [ok |-> FALSE, requests |-> 0]
    ELSE IF net.err THEN [ok |-> FALSE, requests |-> 1]
    ELSE IF net.status # 200 THEN [ok |-> FALSE, requests |-> 1]
    ELSE IF ~HasPrefix(net.ct, ImagePrefix) THEN [ok |-> FALSE, requests |-> 1]
    ELSE IF net.decodeErr THEN [ok |-> FALSE, requests |-> 1]
    ELSE IF net.width < MinImageWidthOf(c) THEN [ok |-> FALSE, requests |-> 1]
    ELSE [ok |-> TRUE, requests |-> 1]

\* ValidateImageURL(ctx, rawURL) against a server that answers with net: whether the
\* URL is accepted, and how many requests client.Do was asked to make
ValidateImageURL(c, rawURL, net) ==
    IF IsLogoOrBanner(ToLower(rawURL)) THEN [ok |-> FALSE, requests |-> 0]
    ELSE IF net.err THEN [ok |-> FALSE, requests |-> 1]
    ELSE IF net.status # 200 THEN [ok |-> FALSE, requests |-> 1]
    ELSE IF ~HasPrefix(net.ct, ImagePrefix) THEN [ok |-> FALSE, requests |-> 1]
    ELSE IF net.decodeErr THEN [ok |-> TRUE, requests |-> 1]
    ELSE IF net.width < MinImageWidthOf(c) THEN [ok |-> FALSE, requests |-> 1]
    ELSE [ok |-> TRUE, requests |-> 1]

(***************************************************************************)
(* ValidateSpec: one ValidateImageURL call, for any URL, MinImageWidth and *)
(* answer of the server.                                                   *)
(***************************************************************************)
\* a/photo.jpg, a/Logo.png, ICON.io/x.gif, a/silicon.jpg, a/b.jpg
ValidateURLs ==
    {<<"a","/","p","h","o","t","o",".","j","p","g">>,
     <<"a","/","L","o","g","o",".","p","n","g">>,
     <<"I","C","O","N",".","i","o","/","x",".","g","i","f">>,
     <<"a","/","s","i","l","i","c","o","n",".","j","p","g">>,
     <<"a","/","b",".","j","p","g">>}

\* image/jpeg, image/png; q=1, Image/PNG, text/html, and no Content-Type
ContentTypes ==
    {<<"i","m","a","g","e","/","j","p","e","g">>,
     <<"i","m","a","g","e","/","p","n","g",";"," ","q","=","1">>,
     <<"I","m","a","g","e","/","P","N","G">>,
     <<"t","e","x","t","/","h","t","m","l">>,
     <<>>}

\* what client.Do and image.DecodeConfig give: a transport error, or a response with
\* its status, Content-Type and a body that decodes to a width or does not decode
NetAnswers ==
    {[err |-> TRUE, status |-> 0, ct |-> <<>>, decodeErr |-> TRUE, width |-> 0]}
        \cup {[err |-> FALSE, status |-> s, ct |-> t, decodeErr |-> TRUE, width |-> 0] :
                 s \in {200, 404, 500}, t \in ContentTypes}
        \cup {[err |-> FALSE, status |-> s, ct |-> t, decodeErr |-> FALSE, width |-> x] :
                 s \in {200, 404, 500}, t \in ContentTypes, x \in {1, 400, 879, 880, 1000}}

ValidateInit ==
    /\ arg \in [cfg : [MinImageWidth : {-1, 0, 400, 880, 1000}],
                url : ValidateURLs, net : NetAnswers]
    /\ ret = <<>>
    /\ cfg = BareConfig
    /\ maxResults = 0
    /\ query = ""
    /\ responses = <<>>
    /\ candidates = <<>>
    /\ dpc = "done"
    /\ next = 1
    /\ cache = EmptyCache
    /\ NoWorkers
    /\ NoRuns

\* ok := cfg.ValidateImageURL(ctx, rawURL)
CallValidateImageURL ==
    /\ arg # <<>>
    /\ ret = <<>>
    /\ ret' = <<ValidateImageURL(arg.cfg, arg.url, arg.net)>>
    /\ UNCHANGED <<arg, faultVars, runVars, deadline, inputVars, driverVars, sharedVars, stageVars,
                   dedupVars, wpc, ncalls>>

ValidateNext == CallValidateImageURL

ValidateSpec == ValidateInit /\ [][ValidateNext]_vars

(***************************************************************************)
(* download.go: Download and fetchImageData.                               *)
(***************************************************************************)
defaultMaxBytes == 204800

\* the nil *DownloadResult
NilResult == [isNil |-> TRUE, size |-> 0, MIMEType |-> <<>>]

\* ct[:idx] trimmed when ct has a ';' at idx, else ct
StripParams(ct) ==
    LET semis == {k \in 1..Len(ct) : ct[k] = ";"}
    IN IF semis = {} THEN ct
       ELSE TrimSpace(SubSeq(ct, 1, (CHOOSE k \in semis : \A m \in semis : k <= m) - 1))

\* the bytes io.ReadAll(io.LimitReader(body, max)) reads of a body of size bytes
ReadLimited(size, max) == IF size < max THEN size ELSE max

\* fetchImageData(ctx, client, url, ua, opts) against a client that answers with ans
fetchImageData(urlOK, ans, opts) ==
    IF ~urlOK THEN NilResult
    ELSE IF ans.err THEN NilResult
    ELSE IF ans.status # 200 THEN NilResult
    ELSE IF ~HasPrefix(StripParams(ans.ct), ImagePrefix) THEN NilResult
    ELSE IF ans.readErr \/ ReadLimited(ans.size, opts.MaxBytes) < opts.MinBytes THEN NilResult
    ELSE [isNil |-> FALSE, size |-> ReadLimited(ans.size, opts.MaxBytes),
          MIMEType |-> StripParams(ans.ct)]

\* the clients whose Do one fetchImageData call reaches
Contacts(urlOK, client) == IF urlOK THEN <<client>> ELSE <<>>

\* mutant: the regular client is asked as well after the stealth client succeeded
DownloadAsksBoth(c, urlOK, net, o) ==
    LET opts == [o EXCEPT !.MaxBytes = IF @ <= 0 THEN defaultMaxBytes ELSE @]
        r == fetchImageData(urlOK, net.http, opts)
        s == fetchImageData(urlOK, net.stealth, opts)
    IN IF c.StealthClient
       THEN [result |-> IF ~s.isNil THEN s ELSE r, err |-> FALSE,
             contacted |-> Contacts(urlOK, "stealth") \o Contacts(urlOK, "http")]
       ELSE [result |-> r, err |-> FALSE, contacted |-> Contacts(urlOK, "http")]

\* Download(ctx, url, opts): (result, err), and the clients contacted in order
Download(c, urlOK, net, o) ==
    LET opts == [o EXCEPT !.MaxBytes = IF @ <= 0 THEN defaultMaxBytes ELSE @]
        s == fetchImageData(urlOK, net.stealth, opts)
    IN IF c.StealthClient /\ ~s.isNil
       THEN [result |-> s, err |-> FALSE, contacted |-> Contacts(urlOK, "stealth")]
       ELSE [result |-> fetchImageData(urlOK, net.http, opts), err |-> FALSE,
             contacted |-> (IF c.StealthClient THEN Contacts(urlOK, "stealth") ELSE <<>>)
                               \o Contacts(urlOK, "http")]

(***************************************************************************)
(* DownloadSpec: one Download call, with and without a StealthClient, for  *)
(* any answers of the two clients and any MinBytes and MaxBytes.           *)
(***************************************************************************)
\* what a client answers: a transport error, or a response with its status, its
\* Content-Type and a body of size bytes, which may fail while it is read
ClientAnswers ==
    {[err |-> TRUE, status |-> 0, ct |-> <<>>, size |-> 0, readErr |-> FALSE],
     [err |-> FALSE, status |-> 200, ct |-> <<"i","m","a","g","e","/","j","p","e","g">>,
      size |-> 3, readErr |-> TRUE]}
        \cup {[err |-> FALSE, status |-> s, ct |-> t, size |-> n, readErr |-> FALSE] :
                 s \in {200, 403, 404}, t \in ContentTypes, n \in {0, 1, 3}}

DownloadInit ==
    /\ arg \in [cfg : [StealthClient : BOOLEAN], urlOK : BOOLEAN,
                net : [stealth : ClientAnswers, http : ClientAnswers],
                opts : [MinBytes : {0, 2}, MaxBytes : {0, 1}]]
    /\ ret = <<>>
    /\ cfg = BareConfig
    /\ maxResults = 0
    /\ query = ""
    /\ responses = <<>>
    /\ candidates = <<>>
    /\ dpc = "done"
    /\ next = 1
    /\ cache = EmptyCache
    /\ NoWorkers
    /\ NoRuns

\* r, err := cfg.Download(ctx, url, opts)
CallDownload ==
    /\ arg # <<>>
    /\ ret = <<>>
    /\ ret' = <<Download(arg.cfg, arg.urlOK, arg.net, arg.opts)>>
    /\ UNCHANGED <<arg, faultVars, runVars, deadline, inputVars, driverVars, sharedVars, stageVars,
                   dedupVars, wpc, ncalls>>

DownloadNext == CallDownload

DownloadSpec == DownloadInit /\ [][DownloadNext]_vars

(***************************************************************************)
(* LiveSpec: the validateCandidates call of PoolSpec, over up to MaxPool   *)
(* candidates whose validation downloads fail, with panics in validateOne  *)
(* and with every goroutine and the driver scheduled as long as they can   *)
(* take a step.                                                            *)
(***************************************************************************)
LiveInit ==
    /\ cfg = [BareConfig EXCEPT !.OnPanic = TRUE]
    /\ maxResults \in 0..MaxQuota
    /\ query = "cats"
    /\ responses \in PoolResponses
    /\ candidates = <<>>
    /\ dpc = "start"
    /\ next = 1
    /\ cache = EmptyCache
    /\ NoWorkers
    /\ NoAssessCall
    /\ NoRuns

LiveNext ==
    \/ \E w \in Workers : Fault(w, "index out of range")
    \/ SearchImagesWithOpts
    \/ Dispatch
    \/ Wait
    \/ \E w \in Workers : Acquire(w)
    \/ \E w \in Workers, ok \in BOOLEAN : Probe(w, ok)
    \/ \E w \in Workers : DownloadForValidation(w, [data |-> FALSE, img |-> NoImg])
    \/ \E w \in Workers : Assess(w, NilMeta)
    \/ \E w \in Workers : LockAndTest(w)
    \/ \E w \in Workers : AppendAndUnlock(w)
    \/ \E w \in Workers : Exit(w)

LiveSpec == LiveInit /\ [][LiveNext]_vars /\ WF_vars(LiveNext)

(***************************************************************************)
(* CacheSpec: the pipeline with a Classifier and a Cache over SameURL      *)
(* candidates of unknown license that share one image URL; the Classifier  *)
(* fails or answers STOCK, and the classification download may fail.       *)
(***************************************************************************)
CacheAnswers == {[err |-> TRUE, text |-> <<>>], [err |-> FALSE, text |-> TextStock]}

CacheInit ==
    /\ cfg = [BareConfig EXCEPT !.Classifier = TRUE, !.Cache = TRUE]
    /\ maxResults = MaxQuota
    /\ query = "cats"
    /\ responses = <<[err |-> FALSE, results |-> [k \in 1..SameURL |-> CandUnknown]]>>
    /\ candidates = <<>>
    /\ dpc = "start"
    /\ next = 1
    /\ cache = EmptyCache
    /\ NoWorkers
    /\ NoAssessCall
    /\ NoRuns

CacheNext ==
    \/ SearchImagesWithOpts
    \/ Dispatch
    \/ Wait
    \/ \E w \in Workers : Acquire(w)
    \/ \E w \in Workers : Probe(w, TRUE)
    \/ \E w \in Workers : DownloadForValidation(w, [data |-> FALSE, img |-> NoImg])
    \/ \E w \in Workers : Assess(w, NilMeta)
    \/ \E w \in Workers : ClassifyImageFull(w)
    \/ \E w \in Workers, ok \in BOOLEAN : ClassifyDownload(w, ok)
    \/ \E w \in Workers, ans \in CacheAnswers : ClassifierCall(w, ans)
    \/ \E w \in Workers : CacheSet(w)
    \/ \E w \in Workers : LockAndTest(w)
    \/ \E w \in Workers : AppendAndUnlock(w)
    \/ \E w \in Workers : Exit(w)

CacheSpec == CacheInit /\ [][CacheNext]_vars

(***************************************************************************)
(* Claims.                                                                 *)
(***************************************************************************)

\* the workers whose candidates are in the result list
Returned == Range(validated)

\* worker w has left validateOne
Finished(w) == wpc[w] \in {"exit", "done"}

\* worker w ended validateOne with its candidate accepted: appended, or the list was full
Accepted(w) == Finished(w) /\ (w \in Returned \/ Len(validated) >= maxResults)

\* OnClassification got an event of the classification path for worker w
HasLLMEvent(w) == \E k \in 1..Len(events[w]) : events[w][k].Source = "llm"

\* C1: at every moment of a search, and so in the list it returns, validated holds at
\* most maxResults candidates, and none when maxResults is zero or negative.
C1_ValidatedWithinMax ==
    Len(validated) <= (IF maxResults > 0 THEN maxResults ELSE 0)

\* a worker holds mu at the append having found the list full: it was dispatched while
\* there was room and another worker took the last place
C1_Witness ==
    \E w \in Workers :
        /\ wpc[w] = "append" /\ ~room[w]
        /\ maxResults >= 1 /\ Len(validated) = maxResults

\* C2: no candidate whose License is Blocked is handed to a validation goroutine.
C2_NoBlockedDispatched ==
    \A w \in Workers : wpc[w] # "idle" => candidates[w].License # LicenseBlocked

\* C3: no candidate in validated has a Blocked License or a Blocked assessment.
C3_NoBlockedReturned ==
    \A w \in Returned :
        candidates[w].License # LicenseBlocked /\ verdict[w] # LicenseBlocked

\* the search has returned a candidate, and turned away one that came in Blocked and
\* was assessed
C3_Witness ==
    /\ dpc = "done" /\ validated # <<>>
    /\ \E w \in Workers :
          /\ wpc[w] = "done"
          /\ candidates[w].License = LicenseBlocked
          /\ verdict[w] = LicenseBlocked

\* worker w is in, or has been through, a call of Classifier.Classify
ClassifierInvoked(w) == wpc[w] = "ccall" \/ clsOut[w] \in {"err", "text"}

\* C4: a candidate that came in with License Safe never reaches ClassifyImageFull, so
\* the Classifier is not invoked for it.
C4_SafeSkipsClassifier ==
    \A w \in Workers :
        (wpc[w] # "idle" /\ candidates[w].License = LicenseSafe)
            => /\ ~ClassifierInvoked(w)
               /\ wpc[w] \notin {"classify", "cdownload", "ccall", "cset"}
               /\ clsOut[w] = "none"

\* with a Classifier configured and used for another candidate of the run, a Safe
\* candidate was downloaded, assessed Safe and returned
C4_Witness ==
    /\ dpc = "done" /\ cfg.Classifier
    /\ \E w \in Returned, u \in Workers :
          /\ candidates[w].License = LicenseSafe
          /\ downloads[w] = 1 /\ verdict[w] = LicenseSafe
          /\ clsOut[u] = "text"

\* C5: a candidate whose Classifier call failed gets the empty class, is accepted, and
\* no "llm" event is reported for it.
C5_ClassifierErrorAccepts ==
    \A w \in Workers :
        clsOut[w] = "err"
            => /\ result[w] = EmptyResult
               /\ wpc[w] \in {"cset", "lock", "append", "exit", "done"}
               /\ Finished(w) => Accepted(w)
               /\ ~HasLLMEvent(w)

\* with the audit callback set, a candidate whose Classifier call failed was returned
C5_Witness ==
    /\ dpc = "done" /\ cfg.OnClassification
    /\ \E w \in Workers : clsOut[w] = "err" /\ w \in Returned /\ events[w] = <<>>

\* no label of classificationClasses is a prefix of the trimmed, upper-cased text
NoLabelMatches(text) ==
    \A k \in 1..Len(classificationClasses) :
        ~HasPrefix(TrimSpace(ToUpper(text)), classificationClasses[k].chars)

C9_NoDuplicatesReturned ==
    \A w1, w2 \in Returned :
        (w1 # w2 /\ hash[w1] # NoHash /\ hash[w2] # NoHash)
            => ~IsDup(hash[w1], hash[w2])

\* two fingerprinted candidates were returned
C9_Witness ==
    /\ dpc = "done"
    /\ \E w1, w2 \in Returned : w1 # w2 /\ hash[w1] # NoHash /\ hash[w2] # NoHash

\* C7: whatever calls of isDuplicate have run or are running on one filter, no two
\* stored fingerprints are duplicates of each other (Hamming distance below
\* dedupThreshold, the test isDuplicate applies).
C7_StoreHasNoDuplicates ==
    \A i, j \in 1..Len(hashes) : i < j => ~IsDup(hashes[i], hashes[j])

\* three fingerprints stored, and a call that overlapped another was turned away
C7_Witness ==
    /\ Len(hashes) >= 3
    /\ \E w \in Callers : wpc[w] = "dret" /\ dres[w] = "dup" /\ conc[w] # {}

\* the fingerprints other calls than those of w1 and w2 stored
OthersStored(w1, w2) == {hashes[k] : k \in (1..Len(hashes)) \ {slot[w1], slot[w2]}}

\* two overlapping calls with mutually duplicate fingerprints that duplicate nothing else
C8_Case(w1, w2) ==
    /\ w1 # w2
    /\ wpc[w1] = "dret" /\ wpc[w2] = "dret"
    /\ w2 \in conc[w1] \/ w1 \in conc[w2]
    /\ img[w1].hashable /\ img[w2].hashable
    /\ IsDup(hash[w1], hash[w2])
    /\ \A h \in OthersStored(w1, w2) : ~IsDup(h, hash[w1]) /\ ~IsDup(h, hash[w2])

ReportedUnique(w) ==
    dres[w] = "unique" /\ slot[w] \in 1..Len(hashes) /\ hashes[slot[w]] = hash[w]

ReportedDuplicate(w) == dres[w] = "dup" /\ slot[w] = 0

\* C8: of two overlapping isDuplicate calls whose fingerprints duplicate each other and
\* no other stored fingerprint, exactly one reports unique and stores its fingerprint and
\* the other reports duplicate and stores nothing.
C8_CompareInsertAtomic ==
    \A w1, w2 \in Workers :
        C8_Case(w1, w2) =>
            \/ ReportedUnique(w1) /\ ReportedDuplicate(w2)
            \/ ReportedUnique(w2) /\ ReportedDuplicate(w1)

\* both calls were waiting for or inside the critical section together, and the one
\* that entered the call later won
C8_Witness ==
    \E w1, w2 \in Callers :
        /\ C8_Case(w1, w2)
        /\ w2 \in conc[w1]
        /\ ReportedUnique(w1) /\ ReportedDuplicate(w2)
        /\ hash[w1] # hash[w2]

\* C10: a call whose image cannot be hashed returns at once with "unique": it stores
\* nothing, takes no lock and does not wait for one.
C10_HashFailureIsUnique ==
    [][\A w \in Workers :
          (wpc[w] = "hash" /\ ~img[w].hashable /\ wpc'[w] # "hash")
              => /\ wpc'[w] = "dret"
                 /\ dres'[w] = "unique"
                 /\ hashes' = hashes
                 /\ dmu' = dmu
                 /\ slot'[w] = 0]_vars

\* a hashing failure was accepted while another call held the filter's lock
C10_Witness ==
    \E w \in Callers :
        /\ wpc[w] = "dret" /\ ~img[w].hashable /\ dres[w] = "unique"
        /\ dmu \notin {0, w}
        /\ hashes # <<>>

\* the LicenseAssessment the call of AssessSpec returned
Assessed == ret[1]

\* some returned signal carries license l
SignalWith(l) == \E k \in 1..Len(Assessed.Signals) : Assessed.Signals[k].License = l

\* some returned signal comes from source src
SignalFrom(src) == \E k \in 1..Len(Assessed.Signals) : Assessed.Signals[k].Source = src

\* C12: the verdict AssessLicense returns is Blocked if a returned signal is Blocked, else
\* Safe if one is Safe, else Unknown; stock metadata together with CC metadata gives
\* Blocked, and stock metadata on a Safe candidate gives Blocked.
C12_VerdictPrecedence ==
    ret # <<>> =>
        /\ Assessed.License = (IF SignalWith(LicenseBlocked) THEN LicenseBlocked
                               ELSE IF SignalWith(LicenseSafe) THEN LicenseSafe
                               ELSE LicenseUnknown)
        /\ (SignalFrom("metadata_stock") /\ SignalFrom("metadata_cc"))
              => Assessed.License = LicenseBlocked
        /\ (arg.cand.License = LicenseSafe /\ IsStockByMetadata(arg.meta))
              => Assessed.License = LicenseBlocked

\* a Safe candidate with stock and CC metadata, where the last signal is Safe, is Blocked
C12_Witness ==
    /\ ret # <<>>
    /\ arg.cand.License = LicenseSafe
    /\ SignalFrom("metadata_stock") /\ SignalFrom("metadata_cc")
    /\ Assessed.Signals[Len(Assessed.Signals)].License = LicenseSafe
    /\ Assessed.License = LicenseBlocked

\* the place of a signal source in the fixed order
SourceRank(src) ==
    CASE src = "domain" -> 1
      [] src = "extra_domain" -> 2
      [] src = "metadata_stock" -> 3
      [] src = "metadata_cc" -> 4
      [] OTHER -> 0

\* C13: the Signals AssessLicense returns are never nil, every signal comes from one of
\* the four sources, and they stand in the order domain, extra_domain, metadata_stock,
\* metadata_cc with no source twice.
C13_SignalsOrdered ==
    ret # <<>> =>
        /\ ~Assessed.SignalsNil
        /\ \A k \in 1..Len(Assessed.Signals) : SourceRank(Assessed.Signals[k].Source) > 0
        /\ \A j, k \in 1..Len(Assessed.Signals) :
              j < k => SourceRank(Assessed.Signals[j].Source)
                          < SourceRank(Assessed.Signals[k].Source)

\* all four signals returned, the verdict decided by the second of them
C13_Witness ==
    /\ ret # <<>>
    /\ Len(Assessed.Signals) = 4
    /\ Assessed.Signals[1].License = LicenseSafe
    /\ Assessed.Signals[2].License = LicenseBlocked

\* the verdict of the domain check re-run with the extra lists of the call
ExtVerdict ==
    CheckLicenseWith(arg.cand.ImgURL, arg.cand.Source,
                     arg.cfg.ExtraBlockedDomains, arg.cfg.ExtraSafeDomains)

\* C14: an extra_domain signal is returned exactly when an extra list is non-empty and
\* the domain check re-run with the lists gives a verdict that is not Unknown and not the
\* candidate's own; the signal carries that verdict.
C14_ExtraDomainSignal ==
    ret # <<>> =>
        /\ SignalFrom("extra_domain")
              <=> /\ arg.cfg.ExtraBlockedDomains # <<>> \/ arg.cfg.ExtraSafeDomains # <<>>
                  /\ ExtVerdict # arg.cand.License
                  /\ ExtVerdict # LicenseUnknown
        /\ \A k \in 1..Len(Assessed.Signals) :
              Assessed.Signals[k].Source = "extra_domain"
                  => Assessed.Signals[k].License = ExtVerdict

\* an Unknown candidate on an extra safe domain got a Safe extra_domain signal and a Safe
\* verdict
C14_Witness ==
    /\ ret # <<>>
    /\ arg.cand.License = LicenseUnknown
    /\ arg.cfg.ExtraBlockedDomains = <<>>
    /\ SignalFrom("extra_domain")
    /\ ExtVerdict = LicenseSafe
    /\ Assessed.License = LicenseSafe

\* call c of RunsSpec stored its fingerprint in the filter of its run
StoredBy(c) == rwork[c].res = "unique" /\ rwork[c].hash # NoHash

\* C11: every validateCandidates call has a filter of its own, which starts empty and
\* holds only fingerprints its own workers stored; a worker is turned away as a duplicate
\* only because of a fingerprint a worker of the same run stored.
C11_FilterPerRun ==
    /\ \A r1, r2 \in Runs :
          (r1 # r2 /\ rfilter[r1] # 0) => rfilter[r1] # rfilter[r2]
    /\ \A r \in Runs :
          rfilter[r] # 0 =>
              \A i \in 1..Len(fstore[rfilter[r]]) :
                  \E k \in 1..RunImgs :
                      StoredBy(<<r, k>>) /\ rwork[<<r, k>>].hash = fstore[rfilter[r]][i]
    /\ \A c \in RunCalls :
          rwork[c].res = "dup" =>
              \E k \in 1..RunImgs :
                  /\ k # c[2]
                  /\ StoredBy(<<c[1], k>>)
                  /\ IsDup(rwork[c].hash, rwork[<<c[1], k>>].hash)

\* two runs each accepted an image with the same fingerprint, and one of them turned
\* away a duplicate of its own
C11_Witness ==
    \E c1, c2, c3 \in RunCalls :
        /\ c1[1] # c2[1] /\ c3[1] = c1[1]
        /\ StoredBy(c1) /\ StoredBy(c2)
        /\ rwork[c1].hash = rwork[c2].hash
        /\ rwork[c3].res = "dup"

\* C15: once validateCandidates has returned, every goroutine it started has ended: no
\* worker is at any stage, none holds a semaphore slot or a mutex, and wg is zero.
C15_ReturnsAfterWorkers ==
    dpc = "done" =>
        /\ \A w \in Workers : wpc[w] \in {"idle", "done"}
        /\ wg = 0 /\ sem = 0 /\ mu = 0 /\ dmu = 0

\* the search returned after two workers ran, one of them through the classifier
C15_Witness ==
    /\ dpc = "done"
    /\ \E w1, w2 \in Workers :
          /\ w1 # w2 /\ wpc[w1] = "done" /\ wpc[w2] = "done"
          /\ w1 \in Returned /\ clsOut[w2] = "text"

\* the candidates the search has gathered
Gathered == IF dpc = "start" THEN gatherCandidates(responses) ELSE candidates

\* C18: with maxResults zero or negative, or with no candidate other than Blocked ones,
\* no worker is started, nothing is downloaded and nothing is returned.
C18_NoWorkWithoutNeed ==
    (maxResults <= 0 \/ \A k \in 1..Len(Gathered) : Gathered[k].License = LicenseBlocked)
        => /\ \A w \in Workers : wpc[w] = "idle" /\ downloads[w] = 0
           /\ validated = <<>>

\* C19: in validated every Safe candidate stands before every Unknown one.
C19_ReturnedSortedByLicense ==
    dpc = "done" => \A i, j \in 1..Len(validated) :
        i < j => ~(/\ candidates[validated[i]].License = LicenseUnknown
                   /\ candidates[validated[j]].License = LicenseSafe)

\* the goroutines that are inside validateOne: they hold a place of sem
InValidateOne == {w \in Workers : wpc[w] \notin {"idle", "sem", "done"}}

\* C16: never more than validationSemaphore candidates are inside validateOne,
\* however many goroutines were started.
C16_PoolBounded ==
    /\ Cardinality(InValidateOne) <= validationSemaphore
    /\ Cardinality(InValidateOne) = sem

\* validationSemaphore goroutines are inside and one more waits for a place
C16_Witness ==
    /\ Cardinality(InValidateOne) = validationSemaphore
    /\ \E w \in Workers : wpc[w] = "sem"
    /\ Len(candidates) > validationSemaphore

\* the OnPanic calls a goroutine must have made: one, with the tag and the value of
\* its panic, when it panicked and the callback is set; none otherwise
ExpectedPanics(w) ==
    IF faulted[w] # NoFault /\ cfg.OnPanic
    THEN <<[tag |-> "imageValidation", value |-> faulted[w]]>>
    ELSE <<>>

\* a panicked goroutine is past validateOne without its candidate in validated and
\* without a mutex
FaultContained ==
    \A w \in Workers :
        /\ panics[w] = ExpectedPanics(w)
        /\ faulted[w] # NoFault =>
               /\ wpc[w] \in {"exit", "done"}
               /\ w \notin Range(validated)
               /\ mu # w /\ dmu # w

\* the step in which goroutine w panics changes nothing the other goroutines see
\* but the release of the mutex of the dedupFilter
FaultStepIsolated ==
    \A w \in Workers :
        (faulted[w] = NoFault /\ faulted'[w] # NoFault) =>
            /\ validated' = validated /\ hashes' = hashes /\ cache' = cache
            /\ mu' = mu /\ sem' = sem /\ wg' = wg /\ dpc' = dpc
            /\ \A v \in Workers \ {w} :
                   /\ wpc'[v] = wpc[v] /\ verdict'[v] = verdict[v]
                   /\ events'[v] = events[v] /\ dres'[v] = dres[v]
                   /\ faulted'[v] = faulted[v] /\ panics'[v] = panics[v]

\* C17: a panic in a stage of validateOne is recovered in its goroutine: OnPanic, when
\* set, is called once with "imageValidation" and the panic value, the candidate is not
\* appended, the step touches no other goroutine, and validateCandidates returns.
C17_PanicIsolated ==
    /\ []FaultContained
    /\ [][FaultStepIsolated]_vars
    /\ <>(dpc = "done")

\* validateCandidates has returned a candidate that was dispatched together with one
\* whose goroutine panicked inside isDuplicate, and OnPanic was called for that one
C17_Witness ==
    /\ dpc = "done"
    /\ \E w \in Workers :
           /\ faulted[w] # NoFault /\ Len(panics[w]) = 1 /\ hash[w] # NoHash
           /\ \E v \in Workers \ {w} : v \in Range(validated) /\ faulted[v] = NoFault

RECURSIVE Concatenated(_, _)
\* the results of the first k providers, those of the failed ones left out
Concatenated(resps, k) ==
    IF k = 0 THEN <<>>
    ELSE Concatenated(resps, k - 1) \o (IF resps[k].err THEN <<>> ELSE resps[k].results)

\* the candidates of list s whose verdict is l, in the order of s
OfLicense(s, l) == LET Is(c) == c.License = l IN SelectSeq(s, Is)

\* list s with the Safe candidates first, then the Unknown, then the Blocked, each
\* group in the order of s
StablySorted(s) ==
    OfLicense(s, LicenseSafe) \o OfLicense(s, LicenseUnknown) \o OfLicense(s, LicenseBlocked)

\* the step that gathers leaves the stably sorted concatenation; no later step
\* changes the list
GatheredOnce ==
    IF dpc = "start"
    THEN dpc' # "start" /\ query # "" =>
             candidates' = StablySorted(Concatenated(responses, Len(responses)))
    ELSE candidates' = candidates

\* goroutines are started in list order, and only once the list is sorted
DispatchedInOrder ==
    /\ \A w \in Workers : wpc[w] # "idle" <=> (dpc # "start" /\ w < next)
    /\ next <= Len(candidates) + 1
    /\ \A i, j \in 1..Len(candidates) :
           i < j => candidates[i].License <= candidates[j].License

\* C20: the candidates of the providers are concatenated in provider order, a failed
\* provider adding nothing, and sorted once and stably by verdict before any dispatch;
\* the goroutines are started in the order of the sorted list.
C20_GatherThenStableSort ==
    /\ []DispatchedInOrder
    /\ [][GatheredOnce]_vars

\* the sorted list holds a Safe candidate in front of two Unknown ones that keep their
\* gathered order, and a goroutine was started for each candidate of the list
C20_Witness ==
    /\ dpc = "done"
    /\ Len(candidates) >= 3
    /\ next = Len(candidates) + 1
    /\ candidates[1] = CandSafe
    /\ candidates[2] = CandUnknownB
    /\ candidates[3] = CandUnknown

\* the events OnClassification has got for worker w are exactly evs, or none when the
\* callback is not set
EventsAre(w, evs) == events[w] = (IF cfg.OnClassification THEN evs ELSE <<>>)

\* worker w is in, or has been through, ClassifyImageFull
InClassification(w) ==
    \/ wpc[w] \in {"classify", "cdownload", "ccall", "cset"}
    \/ clsOut[w] # "none"

NoDecodedImage(w) ==
    /\ wpc[w] \notin {"idle", "sem", "probe", "download", "hash", "dlock", "dscan", "dstore", "dret"}
    /\ downloads[w] >= 1
    /\ dres[w] = "none"

\* C23: a candidate past the probe whose download failed or did not decode is never
\* hashed or compared, is assessed (with no metadata when there are no bytes), and ends
\* rejected only by a Blocked verdict or, when Unknown, by its classification class;
\* otherwise it is accepted.
C23_FailedDownloadDegrades ==
    \A w \in Workers :
        NoDecodedImage(w) =>
            /\ hash[w] = NoHash /\ slot[w] = 0
            /\ wpc[w] # "assess" => verdict[w] \in {LicenseSafe, LicenseUnknown, LicenseBlocked}
            /\ (~data[w] /\ wpc[w] \notin {"assess", "exit", "done"})
                   => verdict[w] = AssessLicense(cfg, candidates[w], NilMeta).License
            /\ Finished(w) =>
                   IF verdict[w] = LicenseBlocked
                        \/ (verdict[w] = LicenseUnknown /\ result[w].Class \notin {"PHOTO", ""})
                   THEN w \notin Returned
                   ELSE w \in Returned \/ Len(validated) >= maxResults

\* a candidate of unknown license whose download failed was appended after the
\* Classifier answered for it
C23_Witness ==
    \E w \in Returned :
        /\ NoDecodedImage(w) /\ wpc[w] = "done"
        /\ verdict[w] = LicenseUnknown /\ clsOut[w] = "text"

\* worker w has made its validation download
PastDownload(w) == wpc[w] \notin {"idle", "sem", "probe", "download"} /\ downloads[w] >= 1

\* C24 as stated: Config.Download is invoked exactly once for a candidate that passed the
\* probe, and no later stage downloads its image again.
C24_SingleDownload ==
    \A w \in Workers :
        /\ downloads[w] <= 1
        /\ PastDownload(w) => downloads[w] = 1

\* worker w has been through the Download call of doClassifyFull
ClassifyDownloaded(w) == wpc[w] = "ccall" \/ clsOut[w] \in {"dlfail", "err", "text"}

\* C24, amended: downloadForValidation downloads once and its one result gives both the
\* image of the dedup step and the bytes of the metadata; the only other download of a
\* candidate is the one of doClassifyFull, made at most once, for a candidate assessed
\* Unknown that a configured Classifier classifies without a cached result.
C24_OneValidationDownload ==
    \A w \in Workers :
        /\ PastDownload(w) =>
               downloads[w] = (IF ClassifyDownloaded(w) THEN 2 ELSE 1)
        /\ InIsDuplicate(w) => data[w] /\ downloads[w] = 1
        /\ ClassifyDownloaded(w) =>
               /\ verdict[w] = LicenseUnknown /\ cfg.Classifier
               /\ cfg.Cache => cacheOps[w] >= 1
        /\ ~PastDownload(w) => downloads[w] = 0

\* a candidate was downloaded for validation, passed the dedup step, and was downloaded
\* again for the Classifier
C24_Witness ==
    \E w \in Workers :
        /\ downloads[w] = 2 /\ dres[w] = "unique" /\ hash[w] # NoHash
        /\ clsOut[w] = "text" /\ wpc[w] = "done"

\* worker w has left validateOne on a decision that rests on a license verdict or on a
\* class: assessed Blocked or Safe, or assessed Unknown and classified with a class
Decided(w) ==
    /\ Finished(w)
    /\ \/ verdict[w] \in {LicenseBlocked, LicenseSafe}
       \/ verdict[w] = LicenseUnknown /\ clsOut[w] # "none" /\ result[w].Class # ""

\* C28: with OnClassification set, every candidate accepted or rejected on a license
\* verdict or on a non-empty class has caused an event with its URL.
C28_EveryDecisionReported ==
    \A w \in Workers :
        (cfg.OnClassification /\ Decided(w)) =>
            \E k \in 1..Len(events[w]) : events[w][k].URL = candidates[w].ImgURL

\* IsRealPhoto has answered for worker w, a candidate assessed Unknown
Classified(w) ==
    /\ verdict[w] = LicenseUnknown
    /\ clsOut[w] # "none"
    /\ wpc[w] \in {"lock", "append", "exit", "done"}

\* worker w is on the way to the append, or left validateOne appended or with the list full
OnAcceptPath(w) ==
    \/ wpc[w] \in {"lock", "append"}
    \/ Finished(w) /\ (w \in Returned \/ Len(validated) >= maxResults)

IsRealPhotoAnswers(w) ==
    /\ wpc[w] \in {"classify", "cdownload", "ccall", "cset"}
    /\ wpc'[w] \notin {"classify", "cdownload", "ccall", "cset"}

Stored(w) == cache[<<"vision_cls_v2", candidates[w].ImgURL>>] # CacheMiss

\* a ClassifyImageFull call that finds a stored result returns it in that step, without
\* going on to doClassifyFull; a Set stores the result of the call; what is stored stays
CachedResultServed ==
    /\ \A w \in Workers :
          (wpc[w] = "classify" /\ wpc'[w] # "classify" /\ cfg.Cache /\ Stored(w)) =>
              /\ result'[w] = cache[<<"vision_cls_v2", candidates[w].ImgURL>>]
              /\ clsOut'[w] = "hit"
              /\ wpc'[w] \in {"lock", "exit"}
              /\ resp'[w] = resp[w] /\ downloads'[w] = downloads[w]
              /\ events'[w] = events[w]
    /\ \A w \in Workers :
          (wpc[w] = "cset" /\ wpc'[w] # "cset") =>
              cache'[<<"vision_cls_v2", candidates[w].ImgURL>>] = result[w]
    /\ \A k \in CacheKeys : cache[k] # CacheMiss => cache'[k] # CacheMiss

\* a call served from the Cache has made no download for the Classifier and no
\* Classifier call, and the Classifier is only called by calls that missed
ServedWithoutClassifier ==
    \A w \in Workers :
        /\ clsOut[w] = "hit" =>
               /\ resp[w] = <<>> /\ ~HasLLMEvent(w) /\ downloads[w] = 1
               /\ cacheOps[w] = 1
               /\ result[w] # CacheMiss
        /\ (cfg.Cache /\ ClassifierInvoked(w) /\ wpc[w] \notin {"ccall", "cset"}) =>
               cacheOps[w] = 2

\* C27: with a Cache, once a ClassifyImageFull call for an image URL has stored its result
\* under Key("vision_cls_v2", URL), every call for that URL that looks the key up later
\* returns the stored result and does not invoke the Classifier.
C27_CacheHitSkipsClassifier ==
    /\ []ServedWithoutClassifier
    /\ [][CachedResultServed]_vars

\* the Classifier answered STOCK for the first candidate and the result was stored; the
\* second candidate with the same URL got the stored result and the Classifier was
\* called once in all
C27_Witness ==
    \E w, v \in Workers :
        /\ clsOut[w] = "text" /\ result[w].Class = "STOCK" /\ wpc[w] = "done"
        /\ clsOut[v] = "hit" /\ result[v] = result[w] /\ wpc[v] = "done"
        /\ Cardinality({u \in Workers : ClassifierInvoked(u)}) = 1

\* a confidence that is 0 or lies in (0, 1]
ConfidenceInRange(c) == c = ZeroConf \/ (c.den > 0 /\ 0 < c.num /\ c.num <= c.den)

\* C30: whatever the Classifier answers, ParseClassificationResult gives one of the six
\* labels or the empty class, with a confidence that is 0 or in (0, 1], and 0 with the
\* empty class.
C30_ParsedResultWellFormed ==
    \A w \in Workers :
        clsOut[w] = "text" =>
            /\ result[w] = ParseClassificationResult(resp[w])
            /\ result[w].Class \in {"PHOTO", "STOCK", "REJECT", "SCREENSHOT",
                                     "ILLUSTRATION", "MAP", ""}
            /\ ConfidenceInRange(result[w].Confidence)
            /\ result[w].Class = "" => result[w].Confidence = ZeroConf

\* the goroutines that were in a network call or a Classifier call when the deadline
\* expired
CutOff == {w \in Workers : deadline.expired
                             /\ deadline.at[w] \in {"probe", "download", "cdownload", "ccall"}}

\* C29: a candidate whose probe, download or classification call was under way when the
\* deadline of the search expired is never appended.
C29_CutOffNeverAppended == \A w \in CutOff : w \notin Returned


\* the labels that are a prefix of the trimmed, upper-cased text
LabelHits(text) ==
    {k \in 1..Len(classificationClasses) :
        HasPrefix(TrimSpace(ToUpper(text)), classificationClasses[k].chars)}

\* C31: ParseClassificationResult tries the labels longest first and returns as class
\* the label that is a prefix of the trimmed, upper-cased response, whatever follows the
\* label; every longest label that is a prefix names that class, so the order of labels
\* of equal length does not matter; a response that is empty or starts with no label
\* gives the empty result.
C31_ClassIsLongestPrefixLabel ==
    /\ \A i, j \in 1..Len(classificationClasses) :
           i < j => Len(classificationClasses[i].chars) >= Len(classificationClasses[j].chars)
    /\ ret # <<>> /\ "resp" \in DOMAIN arg =>
           LET hits == LabelHits(arg.resp)
           IN IF hits = {} THEN ret[1] = EmptyResult
              ELSE \A k \in hits :
                      (\A m \in hits : Len(classificationClasses[m].chars)
                                           <= Len(classificationClasses[k].chars))
                          => ret[1].Class = classificationClasses[k].name

\* a response with white space before a lower-case label that more letters and a
\* number follow was parsed to that label
C31_Witness ==
    /\ ret # <<>>
    /\ arg.resp = <<"\t", " ">> \o <<"r","e","j","e","c","t","e","d">> \o <<" ","0",".","9">>
    /\ ret[1].Class = ClassReject


\* the width an image must have: MinImageWidth, 880 when it is not set to a width
RequiredWidth == IF arg.cfg.MinImageWidth > 0 THEN arg.cfg.MinImageWidth ELSE 880

\* the lower-cased URL contains one of the logo/banner patterns
MatchesLogoPattern ==
    \E k \in 1..Len(LogoBannerPatterns) : ContainsSeq(ToLower(arg.url), LogoBannerPatterns[k])

\* C32: ValidateImageURL returns true exactly when the URL matches no logo/banner
\* pattern, the response has status 200 and a content type starting with image/, and
\* the dimensions cannot be decoded or the width is at least MinImageWidth (880 when
\* unset); for a URL matching a pattern no HTTP request is made.
C32_ValidateImageURLExact ==
    ret # <<>> /\ "url" \in DOMAIN arg =>
        /\ ret[1].ok <=> /\ ~MatchesLogoPattern
                         /\ ~arg.net.err
                         /\ arg.net.status = 200
                         /\ HasPrefix(arg.net.ct, ImagePrefix)
                         /\ (arg.net.decodeErr \/ arg.net.width >= RequiredWidth)
        /\ MatchesLogoPattern => ~ret[1].ok /\ ret[1].requests = 0

\* an image served with status 200 and an image content type whose dimensions cannot
\* be decoded was accepted, after one request
C32_Witness ==
    /\ ret # <<>> /\ "url" \in DOMAIN arg
    /\ ~MatchesLogoPattern
    /\ ~arg.net.err /\ arg.net.status = 200 /\ arg.net.decodeErr
    /\ ret[1] = [ok |-> TRUE, requests |-> 1]


\* the client's answer is an image: no transport error, status 200, a content type
\* that starts with image/ once its parameters are cut, and at least MinBytes bytes
\* read without error within MaxBytes (200 KB when not given)
Delivers(ans) ==
    /\ arg.urlOK
    /\ ~ans.err /\ ans.status = 200 /\ ~ans.readErr
    /\ HasPrefix(StripParams(ans.ct), ImagePrefix)
    /\ \E n \in 0..ans.size :
          /\ n >= arg.opts.MinBytes
          /\ n <= (IF arg.opts.MaxBytes > 0 THEN arg.opts.MaxBytes ELSE 204800)

\* C33: Download asks the StealthClient first when it is set and returns its result
\* without contacting the HTTPClient; the HTTPClient is contacted only without a
\* StealthClient or after a stealth attempt without result; when no client asked
\* delivers an image the result is nil; the error is always nil.
C33_FirstSuccessWins ==
    ret # <<>> /\ "urlOK" \in DOMAIN arg =>
        LET out == ret[1]
            stealthWins == arg.cfg.StealthClient /\ Delivers(arg.net.stealth)
        IN /\ ~out.err
           /\ arg.cfg.StealthClient /\ arg.urlOK => out.contacted[1] = "stealth"
           /\ stealthWins => /\ out.contacted = <<"stealth">>
                             /\ ~out.result.isNil
                             /\ out.result.MIMEType = StripParams(arg.net.stealth.ct)
           /\ (\E k \in 1..Len(out.contacted) : out.contacted[k] = "http")
                  => ~arg.cfg.StealthClient \/ ~Delivers(arg.net.stealth)
           /\ ~stealthWins /\ arg.urlOK => out.contacted[Len(out.contacted)] = "http"
           /\ out.result.isNil <=> ~stealthWins /\ ~Delivers(arg.net.http)

\* the stealth client answered 403, the regular client delivered an image, and Download
\* returned the image after asking both
C33_Witness ==
    /\ ret # <<>> /\ "urlOK" \in DOMAIN arg
    /\ arg.cfg.StealthClient
    /\ arg.net.stealth.status = 403
    /\ ~ret[1].result.isNil
    /\ ret[1].contacted = <<"stealth", "http">>


\* the driver has left its loop with candidates it never looked at or did not start
Broke == dpc \in {"wait", "done"} /\ next <= Len(candidates)

\* the candidate the driver found the list full for, and every later one, has no goroutine
NoneStartedAfterBreak == Broke => \A w \in Workers : w >= next => wpc[w] = "idle"

\* a goroutine is started only by a check that found fewer than maxResults results,
\* and a check that found maxResults of them ends the loop for good
StartedOnlyWithRoom ==
    /\ \A w \in Workers :
          wpc[w] = "idle" /\ wpc'[w] # "idle" => Len(validated) < maxResults
    /\ Broke => Broke' /\ next' = next

\* C34: when the driver's check before a candidate finds maxResults results, that
\* candidate and all later ones are never dispatched, while every goroutine started
\* before goes on through its stages until validateOne has returned.
C34_BreakStopsDispatchOnly ==
    /\ []NoneStartedAfterBreak
    /\ [][StartedOnlyWithRoom]_vars
    /\ \A w \in Workers : (Broke /\ wpc[w] \notin {"idle", "done"}) ~> (wpc[w] = "done")

\* the driver has broken out of its loop while an earlier goroutine holds mu at the
\* append, having found the list full
C34_Witness ==
    /\ Broke
    /\ \E w \in Workers : wpc[w] = "append" /\ ~room[w] /\ faulted[w] = NoFault


\* worker w came to one of the two places of validateOne that lock mu: after a Safe
\* assessment, or after IsRealPhoto answered true for an Unknown one
AtAcceptPoint(w) ==
    \/ verdict[w] = LicenseSafe
    \/ verdict[w] = LicenseUnknown /\ clsOut[w] # "none" /\ result[w].Class \in {ClassPhoto, ""}

\* between the test and the append the worker holds mu and the list is as it was tested;
\* the list holds a worker once at most, only workers from an accept point, and every
\* worker that left the critical section having found room
CriticalSectionIntact ==
    /\ \A w \in Workers :
          /\ wpc[w] = "append" => mu = w /\ room[w] = (Len(validated) < maxResults)
          /\ wpc[w] = "exit" /\ room[w] => w \in Returned
    /\ \A i, j \in 1..Len(validated) : validated[i] = validated[j] => i = j
    /\ \A w \in Returned : AtAcceptPoint(w) /\ wpc[w] \in {"exit", "done"}

\* the list changes only by the append of the worker that holds mu and found room, at the end
OnlyGuardedAppends ==
    validated' # validated =>
        \E w \in Workers :
            /\ wpc[w] = "append" /\ mu = w /\ room[w] /\ AtAcceptPoint(w)
            /\ Len(validated) < maxResults
            /\ validated' = Append(validated, w)

\* C35: the test of the quota and the append are one critical section of mu: the list
\* is made, in the order of the appends, of exactly the candidates whose goroutines came
\* to an accept point while the list had fewer than maxResults entries, each once.
C35_GuardedAppendAtomic == []CriticalSectionIntact /\ [][OnlyGuardedAppends]_vars

\* one goroutine holds mu at the append with room while another waits for mu at its own
\* accept point, and one place is left
C35_Witness ==
    \E w1, w2 \in Workers :
        /\ w1 # w2
        /\ wpc[w1] = "append" /\ room[w1]
        /\ wpc[w2] = "lock"
        /\ Len(validated) + 1 = maxResults


\* the places of validateOne by stage
ProbeStage == {"probe"}
DownloadStage == {"download"}
DedupStage == {"hash", "dlock", "dscan", "dstore", "dret"}
AssessStage == {"assess"}
ClassifyStage == {"classify", "cdownload", "ccall", "cset"}
AppendStage == {"lock", "append"}

\* the stage a goroutine may be in right after a step that took it out of stage s
StagesAfter(s) ==
    IF s = ProbeStage THEN DownloadStage \cup {"exit"}
    ELSE IF s = DownloadStage THEN DedupStage \cup AssessStage
    ELSE IF s = DedupStage THEN AssessStage \cup {"exit"}
    ELSE IF s = AssessStage THEN ClassifyStage \cup AppendStage \cup {"exit"}
    ELSE IF s = ClassifyStage THEN AppendStage \cup {"exit"}
    ELSE {"exit"}

\* a step takes a goroutine from a stage to the next one in the order, or out; a stage
\* that failed (a reported duplicate, a Blocked assessment, a class that is no photo)
\* is the last one
StagesInOrder ==
    \A w \in Workers :
        /\ \A s \in {ProbeStage, DownloadStage, DedupStage, AssessStage, ClassifyStage, AppendStage} :
              wpc[w] \in s /\ wpc'[w] \notin s => wpc'[w] \in StagesAfter(s)
        /\ wpc[w] = "dret" /\ dres[w] = "dup" /\ wpc'[w] # wpc[w] => wpc'[w] = "exit"
        /\ wpc[w] = "assess" /\ verdict'[w] = LicenseBlocked /\ wpc'[w] # wpc[w] => wpc'[w] = "exit"
        /\ wpc[w] \in ClassifyStage /\ wpc'[w] \notin ClassifyStage
              => wpc'[w] = (IF result'[w].Class \in {ClassPhoto, ""} THEN "lock" ELSE "exit")

\* the store of hashes is consulted by goroutines past the probe and the download only;
\* the Classifier is asked only for a candidate that was no duplicate and was assessed Unknown
StagesGuarded ==
    \A w \in Workers :
        /\ wpc[w] \in DedupStage => downloads[w] >= 1 /\ verdict[w] = -1
        /\ dres[w] # "none" => downloads[w] >= 1
        /\ wpc[w] \in ClassifyStage \/ ClassifierInvoked(w)
              => downloads[w] >= 1 /\ dres[w] # "dup" /\ verdict[w] = LicenseUnknown

\* C36: validateOne runs probe, download, dedup, license assessment and classification in
\* this order and returns at the first stage that fails; only candidates past the probe
\* reach the dedup store, and the Classifier is asked only for a candidate past the probe
\* that was not reported as a duplicate and whose assessment is Unknown.
C36_StagesShortCircuit == []StagesGuarded /\ [][StagesInOrder]_vars

\* a candidate went through all five stages: it was hashed and found unique, assessed
\* Unknown, and the Classifier has answered for it
C36_Witness ==
    \E w \in Workers :
        /\ dres[w] = "unique" /\ verdict[w] = LicenseUnknown
        /\ clsOut[w] = "text" /\ wpc[w] = "lock"


\* some stored fingerprint differs from h in fewer than 10 bits
NearStored(h) == \E k \in 1..Len(hashes) : Distance(h, hashes[k]) < 10

\* the step that ends the locked part of isDuplicate decides by NearStored, and no
\* other step changes the store
DecidesByDistance ==
    /\ \A w \in Callers :
          wpc[w] = "dstore" /\ wpc'[w] = "dret" =>
              IF NearStored(hash[w])
              THEN dres'[w] = "dup" /\ hashes' = hashes
              ELSE dres'[w] = "unique" /\ hashes' = Append(hashes, hash[w])
    /\ hashes' # hashes => \E w \in Callers : wpc[w] = "dstore" /\ wpc'[w] = "dret"

\* C37: for an image that hashes, isDuplicate reports a duplicate and leaves the store
\* as it is exactly when a stored fingerprint is at Hamming distance below 10 (0
\* included, 10 not); otherwise it appends the new fingerprint, keeps the others and
\* reports unique.
C37_DuplicateBelowThreshold == [][DecidesByDistance]_vars

\* a fingerprint exactly 10 bits from a stored one was reported unique and stored, and
\* another call met its own fingerprint in the store and reported a duplicate
C37_Witness ==
    \E w1, w2 \in Callers :
        /\ wpc[w1] = "dret" /\ dres[w1] = "unique" /\ slot[w1] > 0
        /\ \E k \in 1..Len(hashes) : k # slot[w1] /\ Distance(hash[w1], hashes[k]) = 10
        /\ wpc[w2] = "dret" /\ dres[w2] = "dup"
        /\ \E k \in 1..Len(hashes) : hashes[k] = hash[w2]


\* the candidate of w passed the dedup check and was given up later, or found the list full
PassedDedupNotReturned(w) ==
    /\ dres[w] = "unique" /\ hash[w] # NoHash
    /\ Finished(w) /\ w \notin Returned

\* the fingerprint of every candidate that passed the dedup check is in the store,
\* whatever became of the candidate
StoredStays ==
    \A w \in Workers :
        dres[w] = "unique" /\ hash[w] # NoHash => \E k \in 1..Len(hashes) : hashes[k] = hash[w]

\* the store changes by an append only, and a candidate checked while the store holds
\* its own fingerprint is reported as a duplicate
StoreOnlyGrows ==
    /\ hashes' = hashes \/ \E h \in Fingerprints : hashes' = Append(hashes, h)
    /\ \A w \in Workers :
          /\ wpc[w] = "dstore" /\ wpc'[w] = "dret"
          /\ \E k \in 1..Len(hashes) : hashes[k] = hash[w]
          => dres'[w] = "dup" /\ hashes' = hashes

\* C38: a fingerprint the dedup stage stored stays in the store for the rest of the run,
\* also when its candidate is rejected afterwards or finds the list full, so a later
\* candidate with the same fingerprint is rejected as a duplicate although the first
\* one is not in the result list.
C38_FingerprintOutlivesRejection == []StoredStays /\ [][StoreOnlyGrows]_vars

\* the first candidate passed the dedup check and was then rejected by its assessment
\* or by the classifier; the second, with the same fingerprint, was reported a duplicate
C38_Witness ==
    \E w1, w2 \in Workers :
        /\ w1 # w2
        /\ PassedDedupNotReturned(w1)
        /\ verdict[w1] = LicenseBlocked \/ (clsOut[w1] # "none" /\ result[w1].Class = ClassStock)
        /\ dres[w2] = "dup" /\ hash[w2] = hash[w1] /\ Finished(w2)
        /\ w2 \notin Returned


\* the classification of w ended without an answer of the Classifier and its empty
\* result has been written to the Cache
StoredEmpty(w) ==
    /\ cfg.Cache
    /\ clsOut[w] \in {"dlfail", "err"}
    /\ wpc[w] \in {"lock", "append", "exit", "done"}

\* worker w enters ClassifyImageFull in this step
StartsClassification(w) == wpc[w] = "classify" /\ wpc'[w] # "classify"

\* C39 as stated: once the empty result of a failed download or a Classifier error is in
\* the Cache, every later classification of the same URL returns the empty class from
\* the Cache, is accepted, and does not try the Classifier.
C39_EmptyResultSticks ==
    [][\A w \in Workers :
          /\ StartsClassification(w)
          /\ \E v \in Workers \ {w} :
                StoredEmpty(v) /\ candidates[v].ImgURL = candidates[w].ImgURL
          => clsOut'[w] = "hit" /\ result'[w].Class = "" /\ wpc'[w] = "lock"]_vars

\* once an empty result is written, the Cache has an entry for the URL: the empty result,
\* or the answer the Classifier gave to another candidate with the same URL
EntryStays ==
    \A v \in Workers :
        StoredEmpty(v) =>
            LET entry == cache[CacheKey(candidates[v].ImgURL)]
            IN /\ entry # CacheMiss
               /\ \/ entry = EmptyResult
                  \/ \E u \in Workers \ {v} :
                        /\ clsOut[u] = "text" /\ entry = result[u]
                        /\ candidates[u].ImgURL = candidates[v].ImgURL

\* Cache.Set stores whatever doClassifyFull returned, the empty result included, and a
\* classification that finds an entry returns it without a download or a Classifier call
WrittenAndServed ==
    \A w \in Workers :
        LET key == CacheKey(candidates[w].ImgURL)
        IN /\ wpc[w] = "cset" /\ wpc'[w] # "cset" =>
                  /\ cache'[key] = result[w]
                  /\ clsOut[w] \in {"dlfail", "err"} => cache'[key] = EmptyResult
           /\ StartsClassification(w) /\ cfg.Cache /\ cache[key] # CacheMiss =>
                  /\ clsOut'[w] = "hit" /\ result'[w] = cache[key]
                  /\ wpc'[w] \in {"lock", "exit"}
                  /\ downloads'[w] = downloads[w] /\ resp'[w] = <<>>
                  /\ cache[key] = EmptyResult => wpc'[w] = "lock"

\* C39, amended: the empty result is written to the Cache like any other, and a later
\* classification of the same URL is answered from the Cache without trying the
\* Classifier: with the empty class while the entry is the empty result, with the
\* result of a classification that had started before and has overwritten it otherwise.
C39_EmptyResultCached == []EntryStays /\ [][WrittenAndServed]_vars

\* the Classifier failed for one candidate, and another candidate with the same URL got
\* the empty result from the Cache and came to the append
C39_Witness ==
    \E v, w \in Workers :
        /\ v # w
        /\ StoredEmpty(v) /\ clsOut[v] = "err"
        /\ clsOut[w] = "hit" /\ result[w] = EmptyResult /\ wpc[w] = "lock"


\* the goroutines that hold a place in sem, and those the WaitGroup counts
HoldingSlot == {w \in Workers : wpc[w] \notin {"idle", "sem", "done"}}
Counted == {w \in Workers : wpc[w] \notin {"idle", "done"}}

\* sem and wg count exactly the goroutines that have not given their place or count
\* back, and once validateCandidates has returned nothing is held
ResourcesAccounted ==
    /\ sem = Cardinality(HoldingSlot) /\ sem <= validationSemaphore
    /\ wg = Cardinality(Counted)
    /\ dpc = "done" => sem = 0 /\ wg = 0 /\ mu = 0

\* a goroutine waiting on sem goes on only by taking a place in it
LeavesQueueBySlot ==
    \A w \in Workers :
        wpc[w] = "sem" /\ wpc'[w] # "sem" => wpc'[w] = "probe" /\ sem' = sem + 1

\* C40: when every probe and download returns, validateCandidates returns for any number
\* of candidates, more than 3 included, and any maxResults: every goroutine started gets
\* a place in sem, comes to the end of validateOne, by a panic or not, and gives its
\* place and its WaitGroup count back.
C40_ValidateCandidatesReturns ==
    /\ []ResourcesAccounted
    /\ [][LeavesQueueBySlot]_vars
    /\ <>(dpc = "done")
    /\ \A w \in Workers : (w \in Counted) ~> (wpc[w] = "done")

\* four goroutines were started: three hold the places of sem, one of them ended by a
\* panic and not yet gone, and the fourth waits for a place
C40_Witness ==
    /\ Cardinality(Counted) > validationSemaphore
    /\ sem = validationSemaphore
    /\ \E w \in Workers : wpc[w] = "sem"
    /\ \E w \in Workers : wpc[w] = "exit" /\ faulted[w] # NoFault

====
